---- MODULE Spec2Model ----
(***************************************************************************)
(* Audiobook catalog: reconciliation of ingested candidates into the books *)
(* table (bulk CSV re-ingestion, file commit), the user-field updates, and *)
(* the directory walker that produces the candidates.                      *)
(*                                                                         *)
(* SQL values are modelled as nullable cells: <<>> is NULL, <<v>> is the   *)
(* value v.  A table is the set of its rows.  Every SQL statement is taken *)
(* to succeed unless it violates a constraint of the schema.  The          *)
(* timestamps (date_added, date_updated), the app_meta table, the upload   *)
(* of covers and the hashed id of a scanned candidate are left out.        *)
(*                                                                         *)
(* Spec is the catalog under its request handlers; SpecScan is one scan of *)
(* a directory tree, whose reads may fail.                                 *)
(*                                                                         *)
(* SpecQuery is one read request (the book list or the series list) on a   *)
(* stored catalog, SpecRepeat the series list asked for again.  There the  *)
(* rows hold the columns the query selects, the two timestamps included,   *)
(* and a text is the sequence of its characters, so that trimming,         *)
(* splitting, lower-casing, searching and number parsing are computed.     *)
(***************************************************************************)
EXTENDS Integers, Sequences, FiniteSets, TLC

VARIABLES
    books,            \* the books table: a set of rows
    narrator_ratings, \* the narrator_ratings table: a set of rows
    last,             \* the last request and its response
    ops,              \* number of requests served so far
    tree,             \* the directories on disk: path -> its entries, in order
    scan,             \* the last scan request and its response
    query,            \* the last read request and its response
    naming            \* the last name given to the naming heuristic and its result

catalogVars == <<books, narrator_ratings, last, ops>>
scanVars == <<tree, scan>>
queryVars == <<query>>
nameVars == <<naming>>
vars == <<books, narrator_ratings, last, ops, tree, scan, query, naming>>

(* ------------------------------ bounds -------------------------------- *)

MaxOps == 2        \* requests per behaviour
MaxBatch == 2      \* rows of one CSV file, candidates of one commit request
MaxScans == 1      \* scans per behaviour
MaxFailures == 1   \* reads that fail during one scan

(* ------------------------------ values -------------------------------- *)

None == <<>>
Some(v) == <<v>>
IsNull(c) == c = None

\* a ? 1 : 0 with null kept, as the upsert arguments are built
BoolToInt(b) == IF b = None THEN None ELSE IF b[1] THEN Some(1) ELSE Some(0)

RECURSIVE SetMax(_)
SetMax(S) ==
    IF S = {} THEN 0
    ELSE LET x == CHOOSE y \in S : TRUE
             m == SetMax(S \ {x})
         IN IF x > m THEN x ELSE m

Range(s) == {s[i] : i \in 1..Len(s)}

(* ------------------------------ schema -------------------------------- *)

BOOK_STATUSES == {"not_started", "in_progress", "finished"}

\* CHECK and NOT NULL constraints of the books table (UNIQUE is in InsertRow)
RowConstraintsOK(r) ==
    /\ r.type # None /\ r.type[1] \in {"Folder", "SingleFile"}
    /\ r.title # None
    /\ r.status \in BOOK_STATUSES
    /\ (r.book_rating = None \/ (r.book_rating[1] >= 1 /\ r.book_rating[1] <= 5))

\* id INTEGER PRIMARY KEY AUTOINCREMENT (no statement deletes a row)
NextId(tbl) == SetMax({r.id : r \in tbl}) + 1

SelectByPath(tbl, p) == {r \in tbl : r.path = p}

\* INSERT INTO books: fails on the UNIQUE(path) or a column constraint
InsertRow(tbl, r) ==
    IF SelectByPath(tbl, r.path) # {} \/ ~RowConstraintsOK(r)
    THEN [ok |-> FALSE, tbl |-> tbl]
    ELSE [ok |-> TRUE, tbl |-> tbl \cup {r}]

\* UPDATE books SET ... WHERE ...: hit are the rows of the WHERE clause, new
\* the same rows as the SET clause leaves them; one statement, all rows or none
UpdateWhere(tbl, hit, new) ==
    IF \E r \in new : ~RowConstraintsOK(r)
    THEN [ok |-> FALSE, tbl |-> tbl]
    ELSE [ok |-> TRUE, tbl |-> (tbl \ hit) \cup new]

(* ------------------------- bulk re-ingestion -------------------------- *)

Coalesce(old, new) == IF old = None THEN new ELSE old
IfEmpty(old, new) == IF old = None \/ old = Some("") THEN new ELSE old

\* a selective UPDATE that takes the incoming author whatever is stored
SelectiveUpdate_TakesAuthor(r, book) ==
    [r EXCEPT !.author = book.author, !.missing_from_csv = 0]

\* the selective UPDATE of a row whose source is 'manual'
SelectiveUpdate(r, book) ==
    [r EXCEPT
        !.type = Coalesce(@, Some(book.type)),
        !.title = IfEmpty(@, Some(book.title)),
        !.author = IfEmpty(@, book.author),
        !.narrator = IfEmpty(@, book.narrator),
        !.duration_seconds = Coalesce(@, book.duration_seconds),
        !.has_embedded_cover = Coalesce(@, BoolToInt(book.has_embedded_cover)),
        !.total_size_bytes = Coalesce(@, book.total_size_bytes),
        !.file_count = Coalesce(@, book.file_count),
        !.is_duplicate = Coalesce(@, BoolToInt(book.is_duplicate)),
        !.series = IfEmpty(@, book.series),
        !.series_book_number = Coalesce(@, book.series_book_number),
        !.series_ended = Coalesce(@, BoolToInt(book.series_ended)),
        !.series_name_raw = Coalesce(@, book.series_name_raw),
        !.series_exact_name_raw = Coalesce(@, book.series_exact_name_raw),
        !.missing_from_csv = 0]

\* a full UPDATE that keeps a stored author, as the selective one does
FullUpdate_KeepsAuthor(r, book) ==
    [r EXCEPT
        !.type = Some(book.type),
        !.title = Some(book.title),
        !.author = Coalesce(@, book.author),
        !.narrator = book.narrator,
        !.duration_seconds = book.duration_seconds,
        !.has_embedded_cover = BoolToInt(book.has_embedded_cover),
        !.total_size_bytes = book.total_size_bytes,
        !.file_count = book.file_count,
        !.series = book.series,
        !.series_book_number = book.series_book_number,
        !.source = "csv",
        !.missing_from_csv = 0]

\* the full UPDATE of a row whose source is not 'manual'
FullUpdate(r, book) ==
    [r EXCEPT
        !.type = Some(book.type),
        !.title = Some(book.title),
        !.author = book.author,
        !.narrator = book.narrator,
        !.duration_seconds = book.duration_seconds,
        !.has_embedded_cover = BoolToInt(book.has_embedded_cover),
        !.total_size_bytes = book.total_size_bytes,
        !.file_count = book.file_count,
        !.is_duplicate = BoolToInt(book.is_duplicate),
        !.series = book.series,
        !.series_book_number = book.series_book_number,
        !.series_ended = BoolToInt(book.series_ended),
        !.series_name_raw = book.series_name_raw,
        !.series_exact_name_raw = book.series_exact_name_raw,
        !.source = "csv",
        !.missing_from_csv = 0]

\* the row of the INSERT: the columns it names, the others at their defaults
InsertValues(book, id) ==
    [id |-> id,
     path |-> book.path,
     type |-> Some(book.type),
     title |-> Some(book.title),
     author |-> book.author,
     narrator |-> book.narrator,
     duration_seconds |-> book.duration_seconds,
     has_embedded_cover |-> BoolToInt(book.has_embedded_cover),
     total_size_bytes |-> book.total_size_bytes,
     file_count |-> book.file_count,
     is_duplicate |-> BoolToInt(book.is_duplicate),
     series |-> book.series,
     series_book_number |-> book.series_book_number,
     series_ended |-> BoolToInt(book.series_ended),
     series_name_raw |-> book.series_name_raw,
     series_exact_name_raw |-> book.series_exact_name_raw,
     source |-> "csv",
     status |-> "not_started",
     book_rating |-> None,
     tags |-> None,
     notes |-> None,
     cover_image_path |-> None,
     missing_from_csv |-> 0]

\* a lookup that never finds the row
ExistingRows_FindsNone(tbl, p) == {}

\* SELECT id, source, ... FROM books WHERE path = ?
ExistingRows(tbl, p) == SelectByPath(tbl, p)

\* the running summary after a statement: counted, or an error when it threw
Counted(st, res, field) ==
    IF res.ok THEN [st EXCEPT !.tbl = res.tbl, ![field] = @ + 1]
    ELSE [st EXCEPT !.errors = @ + 1]

\* an UPDATE of an existing row that also writes the status column
UpdateExisting_ResetsStatus(tbl, book, row) ==
    UpdateWhere(tbl, SelectByPath(tbl, book.path),
                {[FullUpdate(r, book) EXCEPT !.status = "not_started"] :
                    r \in SelectByPath(tbl, book.path)})

\* the UPDATE of an existing row: selective when its source is 'manual'
UpdateExisting(tbl, book, row) ==
    IF row.source = "manual"
    THEN UpdateWhere(tbl, SelectByPath(tbl, book.path),
                     {SelectiveUpdate(r, book) : r \in SelectByPath(tbl, book.path)})
    ELSE UpdateWhere(tbl, SelectByPath(tbl, book.path),
                     {FullUpdate(r, book) : r \in SelectByPath(tbl, book.path)})

UpsertFound(st, book, existing) ==
    IF existing # {}
    THEN Counted(st, UpdateExisting(st.tbl, book, CHOOSE r \in existing : TRUE),
                 "updated")
    ELSE Counted(st, InsertRow(st.tbl, InsertValues(book, NextId(st.tbl))),
                 "inserted")

\* one iteration of the loop of upsertBooks, on the running summary st
UpsertBook(st, book) == UpsertFound(st, book, ExistingRows(st.tbl, book.path))

RECURSIVE UpsertLoop(_, _, _)
UpsertLoop(st, bs, i) ==
    IF i > Len(bs) THEN st ELSE UpsertLoop(UpsertBook(st, bs[i]), bs, i + 1)

UpsertSummary(st, n) ==
    [tbl |-> st.tbl,
     summary |-> [totalRows |-> n, inserted |-> st.inserted,
                  updated |-> st.updated, skipped |-> 0, errors |-> st.errors]]

upsertBooks(tbl, bs) ==
    UpsertSummary(UpsertLoop([tbl |-> tbl, inserted |-> 0, updated |-> 0,
                              errors |-> 0], bs, 1),
                  Len(bs))

getAllBookPaths(tbl) == {r.path : r \in tbl}

\* a DELETE of the rows of a path in place of the flag
MarkOne_Deletes(tbl, p) == [ok |-> TRUE, tbl |-> tbl \ SelectByPath(tbl, p)]

\* UPDATE books SET missing_from_csv = 1 WHERE path = ?, one path at a time
MarkOne(tbl, p) ==
    UpdateWhere(tbl, SelectByPath(tbl, p),
                {[r EXCEPT !.missing_from_csv = 1] : r \in SelectByPath(tbl, p)})

Marked(st, res) ==
    [tbl |-> res.tbl, marked |-> IF res.ok THEN st.marked + 1 ELSE st.marked]

RECURSIVE MarkLoop(_, _)
MarkNext(st, paths, p) == MarkLoop(Marked(st, MarkOne(st.tbl, p)), paths \ {p})

MarkLoop(st, paths) ==
    IF paths = {} THEN st ELSE MarkNext(st, paths, CHOOSE q \in paths : TRUE)

markMissingBooks(tbl, missingPaths) ==
    IF missingPaths = {} THEN [tbl |-> tbl, marked |-> 0]
    ELSE MarkLoop([tbl |-> tbl, marked |-> 0], missingPaths)

(* ----------------------------- file commit ---------------------------- *)

\* path.basename(p, path.extname(p)) on the file names of the model
Stem(name) ==
    CASE name = "1.m4b" -> "1"
      [] name = "2.m4b" -> "2"
      [] name = "3.m4b" -> "3"
      [] name = "g.m4b" -> "g"
      [] name = "2.M4B" -> "2"
      [] name = "t.mp3" -> "t"
      [] name = "n.txt" -> "n"
      [] OTHER -> name

BaseNameNoExt(p) == Stem(p[Len(p)])

\* fs.statSync(p).size of a part file at commit time
CommitStatSize(p) == Len(p) + 10

\* the selective merge of a scanned candidate into a 'manual' row
ScannedSelectiveUpdate(r, c) ==
    [r EXCEPT
        !.type = Coalesce(@, Some(c.type)),
        !.title = IfEmpty(@, Some(c.title)),
        !.author = IfEmpty(@, c.author),
        !.narrator = IfEmpty(@, c.narrator),
        !.duration_seconds = Coalesce(@, c.durationSeconds),
        !.has_embedded_cover = Coalesce(@, BoolToInt(Some(c.hasEmbeddedCover))),
        !.total_size_bytes = Coalesce(@, c.totalSizeBytes),
        !.file_count = Coalesce(@, c.fileCount),
        !.series = IfEmpty(@, c.series),
        !.series_book_number = Coalesce(@, c.seriesBookNumber),
        !.missing_from_csv = 0]

\* the full merge of a scanned candidate into a row that is not 'manual'
ScannedFullUpdate(r, c) ==
    [r EXCEPT
        !.type = Some(c.type),
        !.title = Some(c.title),
        !.author = c.author,
        !.narrator = c.narrator,
        !.duration_seconds = c.durationSeconds,
        !.has_embedded_cover = BoolToInt(Some(c.hasEmbeddedCover)),
        !.total_size_bytes = c.totalSizeBytes,
        !.file_count = c.fileCount,
        !.series = c.series,
        !.series_book_number = c.seriesBookNumber,
        !.missing_from_csv = 0]

\* the row inserted for a candidate seen for the first time
ScannedInsertValues(c, id) ==
    [id |-> id,
     path |-> c.path,
     type |-> Some(c.type),
     title |-> Some(c.title),
     author |-> c.author,
     narrator |-> c.narrator,
     duration_seconds |-> c.durationSeconds,
     has_embedded_cover |-> BoolToInt(Some(c.hasEmbeddedCover)),
     total_size_bytes |-> c.totalSizeBytes,
     file_count |-> c.fileCount,
     is_duplicate |-> None,
     series |-> c.series,
     series_book_number |-> c.seriesBookNumber,
     series_ended |-> None,
     series_name_raw |-> None,
     series_exact_name_raw |-> None,
     source |-> "scanned",
     status |-> "not_started",
     book_rating |-> None,
     tags |-> None,
     notes |-> None,
     cover_image_path |-> None,
     missing_from_csv |-> 0]

UpsertResult(res, bookId, status) ==
    [ok |-> res.ok, tbl |-> res.tbl, bookId |-> bookId, status |-> status]

ScannedUpdateExisting(tbl, c, existing, row) ==
    IF row.source = "manual"
    THEN UpdateWhere(tbl, existing, {ScannedSelectiveUpdate(r, c) : r \in existing})
    ELSE UpdateWhere(tbl, existing, {ScannedFullUpdate(r, c) : r \in existing})

ScannedUpdate(tbl, c, existing, row) ==
    UpsertResult(ScannedUpdateExisting(tbl, c, existing, row), row.id, "updated")

ScannedInsert(tbl, c, id) ==
    UpsertResult(InsertRow(tbl, ScannedInsertValues(c, id)), id, "inserted")

UpsertScannedFound(tbl, c, existing) ==
    IF existing # {}
    THEN ScannedUpdate(tbl, c, existing, CHOOSE r \in existing : TRUE)
    ELSE ScannedInsert(tbl, c, NextId(tbl))

\* upsert(path, fields) -> {bookId, status}; ok = FALSE when the statement throws
upsertScannedBook(tbl, c) == UpsertScannedFound(tbl, c, SelectByPath(tbl, c.path))

\* UPDATE books SET cover_image_path = ? WHERE id = ?
setBookCoverPath(tbl, bookId, coverPath) ==
    UpdateWhere(tbl, {r \in tbl : r.id = bookId},
                {[r EXCEPT !.cover_image_path = Some(coverPath)] :
                    r \in {x \in tbl : x.id = bookId}}).tbl

\* extractCoverForBook: writes covers/<id>.jpg and records it, or gives up
extractCoverForBook(tbl, bookId, extracted) ==
    IF extracted THEN setBookCoverPath(tbl, bookId, <<"covers", bookId>>) ELSE tbl

\* a filter that looks at the first book of the request only
pendingDecisions_FirstOnly(bs) == {i \in 1..Len(bs) : i = 1 /\ bs[i].multipleM4bFiles
                                                     /\ bs[i].userDecision = None}

\* b.multipleM4bFiles && !b.userDecision
PendingDecision(b) == b.multipleM4bFiles /\ b.userDecision = None

pendingDecisions(bs) == {i \in 1..Len(bs) : PendingDecision(bs[i])}

\* a part candidate keyed by the path of the folder
PartCandidate_FolderPath(book, m4bPath) ==
    [path |-> book.path,
     type |-> "SingleFile",
     title |-> BaseNameNoExt(m4bPath),
     author |-> book.author,
     narrator |-> book.narrator,
     series |-> book.series,
     seriesBookNumber |-> book.seriesBookNumber,
     durationSeconds |-> None,
     totalSizeBytes |-> Some(CommitStatSize(m4bPath)),
     fileCount |-> Some(1),
     hasEmbeddedCover |-> book.hasEmbeddedCover]

\* the candidate built for one .m4b of a folder committed as several books
PartCandidate(book, m4bPath) ==
    [path |-> m4bPath,
     type |-> "SingleFile",
     title |-> BaseNameNoExt(m4bPath),
     author |-> book.author,
     narrator |-> book.narrator,
     series |-> book.series,
     seriesBookNumber |-> book.seriesBookNumber,
     durationSeconds |-> None,
     totalSizeBytes |-> Some(CommitStatSize(m4bPath)),
     fileCount |-> Some(1),
     hasEmbeddedCover |-> book.hasEmbeddedCover]

\* the candidate of the standard import
StandardCandidate(book) ==
    [path |-> book.path,
     type |-> book.type,
     title |-> book.title,
     author |-> book.author,
     narrator |-> book.narrator,
     series |-> book.series,
     seriesBookNumber |-> book.seriesBookNumber,
     durationSeconds |-> book.durationSeconds,
     totalSizeBytes |-> book.totalSizeBytes,
     fileCount |-> book.fileCount,
     hasEmbeddedCover |-> book.hasEmbeddedCover]

\* after an upsert of the commit loop: the counters, then the cover extraction;
\* st.calls logs the candidates handed to upsertScannedBook
\* a loop in which a cover that cannot be extracted fails the item
AfterUpsert_CoverFailureThrows(st, c, env, up) ==
    IF ~up.ok \/ (c.hasEmbeddedCover /\ c.path \notin env.covers)
    THEN [ok |-> FALSE, status |-> up.status,
          st |-> IF up.ok THEN [st EXCEPT !.tbl = up.tbl, !.calls = Append(@, c)]
                 ELSE st]
    ELSE [ok |-> TRUE,
          status |-> up.status,
          st |-> [st EXCEPT
                    !.tbl = IF c.hasEmbeddedCover
                            THEN extractCoverForBook(up.tbl, up.bookId,
                                                     c.path \in env.covers)
                            ELSE up.tbl,
                    !.calls = Append(@, c),
                    !.inserted = IF up.status = "inserted" THEN @ + 1 ELSE @,
                    !.updated = IF up.status = "updated" THEN @ + 1 ELSE @]]

AfterUpsert(st, c, env, up) ==
    IF ~up.ok THEN [ok |-> FALSE, status |-> up.status, st |-> st]
    ELSE [ok |-> TRUE,
          status |-> up.status,
          st |-> [st EXCEPT
                    !.tbl = IF c.hasEmbeddedCover
                            THEN extractCoverForBook(up.tbl, up.bookId,
                                                     c.path \in env.covers)
                            ELSE up.tbl,
                    !.calls = Append(@, c),
                    !.inserted = IF up.status = "inserted" THEN @ + 1 ELSE @,
                    !.updated = IF up.status = "updated" THEN @ + 1 ELSE @]]

CommitUpsert(st, c, env) == AfterUpsert(st, c, env, upsertScannedBook(st.tbl, c))

\* the loop over m4bFilePaths; stops at the first statSync or upsert that throws
RECURSIVE CommitParts(_, _, _, _, _)
PartDone(r, book, m4bFilePaths, k, env) ==
    IF r.ok THEN CommitParts(r.st, book, m4bFilePaths, k + 1, env)
    ELSE [ok |-> FALSE, st |-> r.st]

CommitParts(st, book, m4bFilePaths, k, env) ==
    IF k > Len(m4bFilePaths) THEN [ok |-> TRUE, st |-> st]
    ELSE IF m4bFilePaths[k] \in env.gone THEN [ok |-> FALSE, st |-> st]
    ELSE PartDone(CommitUpsert(st, PartCandidate(book, m4bFilePaths[k]), env),
                  book, m4bFilePaths, k, env)

\* the result pushed for one book of the request; upto is the length of the
\* call log when it is pushed
ItemResult(st, book, ok, status) ==
    IF ok
    THEN [st EXCEPT !.results = Append(@, [path |-> book.path, status |-> status,
                                           upto |-> Len(st.calls)])]
    ELSE [st EXCEPT !.results = Append(@, [path |-> book.path, status |-> "error",
                                           upto |-> Len(st.calls)]),
                    !.errors = @ + 1]

PartsResult(r, book) == ItemResult(r.st, book, r.ok, "inserted")

StandardResult(r, book) == ItemResult(r.st, book, r.ok, r.status)

\* the body of the loop of POST for one book of the request
CommitBook(st, book, env) ==
    IF book.multipleM4bFiles /\ book.userDecision = Some("multiple")
       /\ book.m4bFilePaths # None
    THEN PartsResult(CommitParts(st, book, book.m4bFilePaths[1], 1, env), book)
    ELSE StandardResult(CommitUpsert(st, StandardCandidate(book), env), book)

RECURSIVE CommitLoop(_, _, _, _)
CommitLoop(st, bs, i, env) ==
    IF i > Len(bs) THEN st ELSE CommitLoop(CommitBook(st, bs[i], env), bs, i + 1, env)

CommitResponse(st, n) ==
    [tbl |-> st.tbl,
     response |-> [ok |-> TRUE, httpStatus |-> 200,
                   summary |-> Some([total |-> n,
                                     inserted |-> st.inserted,
                                     updated |-> st.updated,
                                     skipped |-> 0,
                                     errors |-> st.errors]),
                   results |-> st.results, calls |-> st.calls]]

\* POST /api/files/commit after the guards of the request
commitBooks(tbl, bs, env) ==
    IF pendingDecisions(bs) # {}
    THEN [tbl |-> tbl,
          response |-> [ok |-> FALSE, httpStatus |-> 400, summary |-> None,
                        results |-> <<>>, calls |-> <<>>]]
    ELSE CommitResponse(CommitLoop([tbl |-> tbl, inserted |-> 0, updated |-> 0,
                                    errors |-> 0, results |-> <<>>, calls |-> <<>>],
                                   bs, 1, env),
                        Len(bs))

(* --------------------------- user operations -------------------------- *)

\* updateBook: only the fields present in updates are set
updateBook(tbl, id, updates) ==
    UpdateWhere(tbl, {r \in tbl : r.id = id},
                {[r EXCEPT
                    !.status = IF updates.status # None THEN updates.status[1] ELSE @,
                    !.book_rating = IF updates.book_rating # None
                                    THEN updates.book_rating[1] ELSE @,
                    !.tags = IF updates.tags # None THEN updates.tags[1] ELSE @,
                    !.notes = IF updates.notes # None THEN updates.notes[1] ELSE @] :
                 r \in {x \in tbl : x.id = id}})

\* INSERT ... ON CONFLICT(book_id, narrator_name) DO UPDATE SET rating
UpsertRating(tbl, bookId, rating) ==
    {x \in tbl : ~(x.book_id = bookId /\ x.narrator_name = rating.narratorName)}
        \cup {[book_id |-> bookId, narrator_name |-> rating.narratorName,
               rating |-> rating.rating]}

RECURSIVE upsertNarratorRatings(_, _, _, _)
upsertNarratorRatings(tbl, bookId, ratings, i) ==
    IF i > Len(ratings) THEN tbl
    ELSE upsertNarratorRatings(UpsertRating(tbl, bookId, ratings[i]), bookId,
                               ratings, i + 1)

(* -------------------------------- texts ------------------------------- *)

\* A text is the sequence of its pieces.  A piece is one character, or the word
\* "constructor" taken whole: it has no space, comma, digit or capital in it.

WhiteSpace == {" "}

\* String.prototype.trim
RECURSIVE TrimStart(_)
TrimStart(s) ==
    IF s # <<>> /\ Head(s) \in WhiteSpace THEN TrimStart(Tail(s)) ELSE s

RECURSIVE TrimEnd(_)
TrimEnd(s) ==
    IF s # <<>> /\ s[Len(s)] \in WhiteSpace
    THEN TrimEnd(SubSeq(s, 1, Len(s) - 1))
    ELSE s

Trim(s) == TrimEnd(TrimStart(s))

\* s.split(','): cur is the token being read, acc the tokens before it
RECURSIVE SplitFrom(_, _, _, _)
SplitFrom(s, i, acc, cur) ==
    IF i > Len(s) THEN Append(acc, cur)
    ELSE IF s[i] = "," THEN SplitFrom(s, i + 1, Append(acc, cur), <<>>)
    ELSE SplitFrom(s, i + 1, acc, Append(cur, s[i]))

SplitOnComma(s) == SplitFrom(s, 1, <<>>, <<>>)

LowerPiece(c) ==
    CASE c = "A" -> "a"
      [] c = "B" -> "b"
      [] c = "S" -> "s"
      [] OTHER -> c

\* String.prototype.toLowerCase
toLowerCase(s) == [i \in 1..Len(s) |-> LowerPiece(s[i])]

\* String.prototype.includes
includes(s, t) == \E i \in 0..(Len(s) - Len(t)) : SubSeq(s, i + 1, i + Len(t)) = t

\* the collation order of the pieces, lower case only: space, punctuation,
\* digits, letters
CollationOrder ==
    <<" ", ",", ".", "%", "0", "1", "2", "5", "a", "b", "constructor", "d",
      "e", "k", "l", "n", "o", "s", "t", "x">>

Rank(c) == CHOOSE i \in 1..Len(CollationOrder) : CollationOrder[i] = c

\* a.localeCompare(b) on lower-case texts: negative, zero or positive
RECURSIVE localeCompare(_, _)
localeCompare(a, b) ==
    IF a = <<>> /\ b = <<>> THEN 0
    ELSE IF a = <<>> THEN -1
    ELSE IF b = <<>> THEN 1
    ELSE IF Rank(Head(a)) < Rank(Head(b)) THEN -1
    ELSE IF Rank(Head(a)) > Rank(Head(b)) THEN 1
    ELSE localeCompare(Tail(a), Tail(b))

\* encodeURIComponent, piece by piece
EncodePiece(c) ==
    CASE c = " " -> <<"%", "2", "0">>
      [] c = "," -> <<"%", "2", "C">>
      [] c = "%" -> <<"%", "2", "5">>
      [] OTHER -> <<c>>

RECURSIVE encodeURIComponent(_)
encodeURIComponent(s) ==
    IF s = <<>> THEN <<>> ELSE EncodePiece(Head(s)) \o encodeURIComponent(Tail(s))

IsDigit(c) == c \in {"0", "1", "2", "5"}

(* --------------------------- directory walker ------------------------- *)

\* path.join(folderPath, name) and path.basename(p)
Join(folderPath, name) == Append(folderPath, name)
BaseName(p) == p[Len(p)]

\* path.extname(name).toLowerCase() on the file names of the model
LowerExt(name) ==
    CASE name \in {"1.m4b", "2.m4b", "3.m4b", "g.m4b", "2.M4B"} -> ".m4b"
      [] name = "t.mp3" -> ".mp3"
      [] name = "n.txt" -> ".txt"
      [] OTHER -> ""

AUDIO_EXTENSIONS == {".mp3", ".m4a", ".m4b", ".flac", ".ogg", ".opus", ".wma", ".aac"}
AUDIOBOOK_EXTENSIONS == {".m4b"}

isAudioFile(filename) == LowerExt(filename) \in AUDIO_EXTENSIONS

\* the audiobook container (m4b)
isAudiobookFile(filename) == LowerExt(filename) \in AUDIOBOOK_EXTENSIONS

(* The naming heuristic.  A name is a text; the three patterns are matched as *)
(* the regular expressions match them: a lazy group takes the shortest text  *)
(* for which what follows can match, white space and digits are taken as far *)
(* as they go.                                                               *)

\* [-–]: the hyphen, and the en dash as the piece "ndash"
Dashes == {"-", "ndash"}

At(s, i) == IF i >= 1 /\ i <= Len(s) THEN s[i] ELSE ""

\* \s* from i: the first position that holds no white space
RECURSIVE SkipSpaces(_, _)
SkipSpaces(s, i) == IF At(s, i) \in WhiteSpace THEN SkipSpaces(s, i + 1) ELSE i

\* \d+ from i: the first position that holds no digit
RECURSIVE SkipDigits(_, _)
SkipDigits(s, i) == IF IsDigit(At(s, i)) THEN SkipDigits(s, i + 1) ELSE i

\* Book under the flag i, in the spellings of the model
BookAt(s, i) ==
    /\ i + 3 <= Len(s)
    /\ SubSeq(s, i, i + 3) \in {<<"B", "o", "o", "k">>, <<"b", "o", "o", "k">>}

\* (?:Book\s*)? from j
AfterBook(s, j) == IF BookAt(s, j) THEN SkipSpaces(s, j + 4) ELSE j

\* \s*[-–]\s*(?:Book\s*)? from i: where the number is to start, 0 without a dash
NumberFrom(s, i) ==
    IF At(s, SkipSpaces(s, i)) \notin Dashes THEN 0
    ELSE AfterBook(s, SkipSpaces(s, SkipSpaces(s, i) + 1))

\* the digits from b are read up to d: (?:\.\d+)? from d
WithFraction(s, d) ==
    IF At(s, d) = "." /\ SkipDigits(s, d + 1) > d + 1 THEN SkipDigits(s, d + 1) ELSE d

\* (\d+(?:\.\d+)?) from b: the position after the number, 0 when there is none
NumberTo(s, b) ==
    IF b = 0 \/ SkipDigits(s, b) = b THEN 0 ELSE WithFraction(s, SkipDigits(s, b))

\* \s*[-–]\s*(.+)$ from e: the position of the dash, 0 when it does not match
SecondDash(s, e) ==
    IF e # 0 /\ At(s, SkipSpaces(s, e)) \in Dashes /\ SkipSpaces(s, e) < Len(s)
    THEN SkipSpaces(s, e)
    ELSE 0

\* what follows the series in dashPattern, from i: the position of its second dash
DashRest(s, i) == SecondDash(s, NumberTo(s, NumberFrom(s, i)))

\* what follows the series in simplePattern, from i
SimpleRest(s, i) == NumberTo(s, NumberFrom(s, i)) = Len(s) + 1

\* ^(.+?): the first position from i at which what follows the series matches
RECURSIVE FirstDashMatch(_, _)
FirstDashMatch(s, i) ==
    IF i > Len(s) THEN 0
    ELSE IF DashRest(s, i) # 0 THEN i
    ELSE FirstDashMatch(s, i + 1)

RECURSIVE FirstSimpleMatch(_, _)
FirstSimpleMatch(s, i) ==
    IF i > Len(s) THEN 0
    ELSE IF SimpleRest(s, i) THEN i
    ELSE FirstSimpleMatch(s, i + 1)

NumberText(s, b) == SubSeq(s, b, NumberTo(s, b) - 1)

DashResult(s, i) ==
    [series |-> Some(Trim(SubSeq(s, 1, i - 1))),
     bookNumber |-> Some(NumberText(s, NumberFrom(s, i))),
     cleanTitle |-> Trim(SubSeq(s, DashRest(s, i) + 1, Len(s)))]

SimpleResult(s, i) ==
    [series |-> Some(Trim(SubSeq(s, 1, i - 1))),
     bookNumber |-> Some(NumberText(s, NumberFrom(s, i))),
     cleanTitle |-> s]

\* the first dash from d on that is not the last piece of the name
RECURSIVE FirstDashFrom(_, _)
FirstDashFrom(s, d) ==
    IF d >= Len(s) THEN 0
    ELSE IF s[d] \in Dashes THEN d
    ELSE FirstDashFrom(s, d + 1)

\* \s*(.+?)\s*[-–]\s*(.+)$ after the bracket closed at j, the white space after
\* it ending at g: the dash that follows a series of one piece or more, or the
\* dash at g itself when the series can only be white space
BracketDashFrom(s, j, g) ==
    IF FirstDashFrom(s, g + 1) # 0 THEN FirstDashFrom(s, g + 1)
    ELSE IF g > j + 1 /\ At(s, g) \in Dashes /\ g < Len(s) THEN g
    ELSE 0

BracketDash(s, j) == BracketDashFrom(s, j, SkipSpaces(s, j + 1))

\* ^\[.+?\]: the first closing bracket from j after which the rest matches
RECURSIVE FirstBracket(_, _)
FirstBracket(s, j) ==
    IF j > Len(s) \/ At(s, 1) # "[" THEN 0
    ELSE IF s[j] = "]" /\ BracketDash(s, j) # 0 THEN j
    ELSE FirstBracket(s, j + 1)

BracketResult(s, j) ==
    [series |-> Some(Trim(SubSeq(s, j + 1, BracketDash(s, j) - 1))),
     bookNumber |-> None,
     cleanTitle |-> Trim(SubSeq(s, BracketDash(s, j) + 1, Len(s)))]

parseSeriesFromName(name) ==
    IF FirstDashMatch(name, 2) # 0 THEN DashResult(name, FirstDashMatch(name, 2))
    ELSE IF FirstSimpleMatch(name, 2) # 0
    THEN SimpleResult(name, FirstSimpleMatch(name, 2))
    ELSE IF FirstBracket(name, 3) # 0 THEN BracketResult(name, FirstBracket(name, 3))
    ELSE [series |-> None, bookNumber |-> None, cleanTitle |-> name]

\* A name of the trees and of the commits is one piece, without dash, bracket
\* or space in it; the candidates hold the parts of such a name as they are.
Whole(text) == IF text = <<>> THEN "" ELSE text[1]

WholeCell(cell) == IF cell = None THEN None ELSE Some(Whole(cell[1]))

NameParts(p) ==
    [series |-> WholeCell(p.series), bookNumber |-> WholeCell(p.bookNumber),
     cleanTitle |-> Whole(p.cleanTitle)]

parseSeriesFromFileName(name) == NameParts(parseSeriesFromName(<<name>>))

\* fs.statSync(p).size, in MB, and what mm.parseFile reads from a file
FileSize(name) ==
    CASE name = "1.m4b" -> 30
      [] name = "2.M4B" -> 4
      [] name = "t.mp3" -> 40
      [] OTHER -> 1

Tags(name) ==
    CASE name = "1.m4b" -> [title |-> Some("M1"), author |-> Some("au"),
                            narrator |-> Some("na"), durationSeconds |-> Some(700),
                            hasEmbeddedCover |-> TRUE]
      [] name = "2.M4B" -> [title |-> None, author |-> None, narrator |-> None,
                            durationSeconds |-> Some(500), hasEmbeddedCover |-> FALSE]
      [] OTHER -> [title |-> Some("T"), author |-> None, narrator |-> None,
                   durationSeconds |-> Some(60), hasEmbeddedCover |-> FALSE]

NoTags ==
    [title |-> None, author |-> None, narrator |-> None,
     durationSeconds |-> None, hasEmbeddedCover |-> FALSE]

\* env.tagFail: the files whose tags cannot be parsed during this scan
extractFileMetadata(filePath, env) ==
    IF filePath \in env.tagFail THEN NoTags ELSE Tags(BaseName(filePath))

NoContents == [audioFiles |-> <<>>, totalSize |-> 0, m4bFiles |-> <<>>]

AddAudioFile(acc, filePath, name) ==
    [audioFiles |-> Append(acc.audioFiles,
                           [path |-> filePath, size |-> FileSize(name),
                            isM4b |-> isAudiobookFile(name)]),
     totalSize |-> acc.totalSize + FileSize(name),
     m4bFiles |-> IF isAudiobookFile(name) THEN Append(acc.m4bFiles, filePath)
                  ELSE acc.m4bFiles]

\* the loop over the entries; a statSync that throws ends it, and the catch
\* leaves what was collected so far
RECURSIVE ContentsLoop(_, _, _, _, _)
ContentsLoop(acc, entries, i, folderPath, env) ==
    IF i > Len(entries) THEN acc
    ELSE IF ~(entries[i].kind = "file" /\ isAudioFile(entries[i].name))
    THEN ContentsLoop(acc, entries, i + 1, folderPath, env)
    ELSE IF Join(folderPath, entries[i].name) \in env.statFail THEN acc
    ELSE ContentsLoop(AddAudioFile(acc, Join(folderPath, entries[i].name),
                                   entries[i].name),
                      entries, i + 1, folderPath, env)

\* env.contentFail: the folders whose readdirSync throws here; the catch only
\* logs to the console
scanFolderContents(fs, folderPath, env) ==
    IF folderPath \in env.contentFail THEN NoContents
    ELSE ContentsLoop(NoContents, fs[folderPath], 1, folderPath, env)

\* a || b || c on the title
TitleOf(metaTitle, cleanTitle, name) ==
    IF metaTitle # None /\ metaTitle # Some("") THEN metaTitle[1]
    ELSE IF cleanTitle # "" THEN cleanTitle
    ELSE name

\* n || null
NonZero(n) == IF n = 0 THEN None ELSE Some(n)

DurationOrZero(meta) ==
    IF meta.durationSeconds = None THEN 0 ELSE meta.durationSeconds[1]

RECURSIVE SumDurations(_, _, _)
SumDurations(paths, i, env) ==
    IF i > Len(paths) THEN 0
    ELSE DurationOrZero(extractFileMetadata(paths[i], env))
            + SumDurations(paths, i + 1, env)

FolderCandidate(folderPath, meta, parsed, duration, contents) ==
    [path |-> folderPath,
     type |-> "Folder",
     title |-> TitleOf(meta.title, parsed.cleanTitle, BaseName(folderPath)),
     author |-> meta.author,
     narrator |-> meta.narrator,
     series |-> parsed.series,
     seriesBookNumber |-> parsed.bookNumber,
     durationSeconds |-> duration,
     totalSizeBytes |-> Some(contents.totalSize),
     fileCount |-> Some(Len(contents.audioFiles)),
     hasEmbeddedCover |-> meta.hasEmbeddedCover,
     multipleM4bFiles |-> FALSE,
     m4bFileCount |-> None,
     m4bFilePaths |-> None,
     userDecision |-> None,
     warnings |-> <<>>,
     errors |-> <<>>,
     selected |-> TRUE]

\* a candidate for several .m4b files whose fileCount counts the .m4b files only
MultiM4bCandidate_CountsParts(folderPath, contents, env) ==
    [FolderCandidate(folderPath, extractFileMetadata(contents.m4bFiles[1], env),
                     parseSeriesFromFileName(BaseName(folderPath)),
                     NonZero(SumDurations(contents.m4bFiles, 1, env)), contents)
     EXCEPT !.fileCount = Some(Len(contents.m4bFiles)),
            !.multipleM4bFiles = TRUE,
            !.m4bFileCount = Some(Len(contents.m4bFiles)),
            !.m4bFilePaths = Some(contents.m4bFiles),
            !.warnings = <<<<"Multiple .m4b files", Len(contents.m4bFiles),
                             "user decision required">>>>]

\* several .m4b files: one candidate that waits for the user's decision
MultiM4bCandidate(folderPath, contents, env) ==
    [FolderCandidate(folderPath, extractFileMetadata(contents.m4bFiles[1], env),
                     parseSeriesFromFileName(BaseName(folderPath)),
                     NonZero(SumDurations(contents.m4bFiles, 1, env)), contents)
     EXCEPT !.multipleM4bFiles = TRUE,
            !.m4bFileCount = Some(Len(contents.m4bFiles)),
            !.m4bFilePaths = Some(contents.m4bFiles),
            !.warnings = <<<<"Multiple .m4b files", Len(contents.m4bFiles),
                             "user decision required">>>>]

\* one .m4b file: it is the canonical source
SingleM4bCandidate(folderPath, contents, env) ==
    FolderCandidate(folderPath, extractFileMetadata(contents.m4bFiles[1], env),
                    parseSeriesFromFileName(BaseName(folderPath)),
                    extractFileMetadata(contents.m4bFiles[1], env).durationSeconds,
                    contents)

\* the largest file, the first of them when several are as large
RECURSIVE Representative(_, _, _)
Representative(audioFiles, i, rep) ==
    IF i > Len(audioFiles) THEN rep
    ELSE Representative(audioFiles, i + 1,
                        IF audioFiles[i].size > rep.size THEN audioFiles[i] ELSE rep)

PathsOfFiles(audioFiles) == [i \in 1..Len(audioFiles) |-> audioFiles[i].path]

\* no .m4b file: the durations are summed, the largest file gives the tags
NoM4bCandidate(folderPath, contents, env) ==
    FolderCandidate(folderPath,
                    extractFileMetadata(
                        Representative(contents.audioFiles, 1,
                                       contents.audioFiles[1]).path, env),
                    parseSeriesFromFileName(BaseName(folderPath)),
                    NonZero(SumDurations(PathsOfFiles(contents.audioFiles), 1, env)),
                    contents)

ProcessContents(folderPath, contents, env) ==
    IF Len(contents.audioFiles) = 0 THEN None
    ELSE IF Len(contents.m4bFiles) > 1
    THEN Some(MultiM4bCandidate(folderPath, contents, env))
    ELSE IF Len(contents.m4bFiles) = 1
    THEN Some(SingleM4bCandidate(folderPath, contents, env))
    ELSE Some(NoM4bCandidate(folderPath, contents, env))

processFolderAsBook(fs, folderPath, env) ==
    ProcessContents(folderPath, scanFolderContents(fs, folderPath, env), env)

ShortDurationSeconds == 600
SmallFileMB == 5

SingleFileWarnings(meta, size) ==
    (IF meta.durationSeconds # None /\ meta.durationSeconds # Some(0)
        /\ meta.durationSeconds[1] < ShortDurationSeconds
     THEN <<<<"Very short duration (<10 min)">>>> ELSE <<>>)
    \o (IF size < SmallFileMB THEN <<<<"Small file (<5 MB)">>>> ELSE <<>>)

SingleFileCandidate(filePath, meta, parsed, size) ==
    [path |-> filePath,
     type |-> "SingleFile",
     title |-> TitleOf(meta.title, parsed.cleanTitle, BaseNameNoExt(filePath)),
     author |-> meta.author,
     narrator |-> meta.narrator,
     series |-> parsed.series,
     seriesBookNumber |-> parsed.bookNumber,
     durationSeconds |-> meta.durationSeconds,
     totalSizeBytes |-> Some(size),
     fileCount |-> Some(1),
     hasEmbeddedCover |-> meta.hasEmbeddedCover,
     multipleM4bFiles |-> FALSE,
     m4bFileCount |-> None,
     m4bFilePaths |-> None,
     userDecision |-> None,
     warnings |-> SingleFileWarnings(meta, size),
     errors |-> <<>>,
     selected |-> TRUE]

\* env.statFail: the files whose statSync throws; here the exception escapes
processSingleFileAsBook(filePath, env) ==
    IF filePath \in env.statFail THEN [threw |-> TRUE, candidate |-> None]
    ELSE [threw |-> FALSE,
          candidate |-> Some(SingleFileCandidate(
                                filePath, extractFileMetadata(filePath, env),
                                parseSeriesFromFileName(BaseNameNoExt(filePath)),
                                FileSize(BaseName(filePath))))]

\* one candidate of splitMultiM4bCandidate: the tags of the part file, the
\* values of the folder's candidate where the part has none
SplitPart(candidate, m4bPath, meta, parsed) ==
    [path |-> m4bPath,
     type |-> "SingleFile",
     title |-> TitleOf(meta.title, parsed.cleanTitle, BaseNameNoExt(m4bPath)),
     author |-> IfEmpty(meta.author, candidate.author),
     narrator |-> IfEmpty(meta.narrator, candidate.narrator),
     series |-> IfEmpty(parsed.series, candidate.series),
     seriesBookNumber |-> IfEmpty(parsed.bookNumber, candidate.seriesBookNumber),
     durationSeconds |-> meta.durationSeconds,
     totalSizeBytes |-> Some(FileSize(BaseName(m4bPath))),
     fileCount |-> Some(1),
     hasEmbeddedCover |-> meta.hasEmbeddedCover,
     warnings |-> <<>>,
     errors |-> <<>>,
     selected |-> TRUE]

\* exported by the scanner and called by no route
splitMultiM4bCandidate(candidate, env) ==
    IF candidate.m4bFilePaths = None \/ candidate.m4bFilePaths = Some(<<>>)
    THEN <<candidate>>
    ELSE [k \in 1..Len(candidate.m4bFilePaths[1]) |->
            SplitPart(candidate, candidate.m4bFilePaths[1][k],
                      extractFileMetadata(candidate.m4bFilePaths[1][k], env),
                      parseSeriesFromFileName(BaseNameNoExt(candidate.m4bFilePaths[1][k])))]

Subfolders(entries) == SelectSeq(entries, LAMBDA e : e.kind = "dir")
Files(entries) == SelectSeq(entries, LAMBDA e : e.kind = "file")
StandaloneAudiobooks(entries) ==
    SelectSeq(Files(entries), LAMBDA e : isAudiobookFile(e.name))
AudioFiles(entries) == SelectSeq(Files(entries), LAMBDA e : isAudioFile(e.name))

DefaultMaxDepth == 5

\* the catch of walkFolder
WalkCaught(st, folderPath) ==
    [st EXCEPT !.warnings = Append(@, <<"Error scanning", folderPath>>)]

\* a push that enters the candidate twice
PushCandidate_Twice(st, result) ==
    IF result = None THEN st
    ELSE [st EXCEPT !.candidates = Append(Append(@, result[1]), result[1])]

PushCandidate(st, result) ==
    IF result = None THEN st ELSE [st EXCEPT !.candidates = Append(@, result[1])]

\* the loop over the standalone .m4b files; the first one that throws ends it
RECURSIVE SinglesLoop(_, _, _, _, _)
SingleDone(st, r, folderPath, files, i, env) ==
    IF r.threw THEN WalkCaught(st, folderPath)
    ELSE SinglesLoop(PushCandidate(st, r.candidate), folderPath, files, i + 1, env)

SinglesLoop(st, folderPath, files, i, env) ==
    IF i > Len(files) THEN st
    ELSE SingleDone(st, processSingleFileAsBook(Join(folderPath, files[i].name), env),
                    folderPath, files, i, env)

\* st.walked logs the folders counted in scannedFolders, in the order of the walk
RECURSIVE walkFolder(_, _, _, _, _, _)
RECURSIVE WalkSubfolders(_, _, _, _, _, _, _, _)
WalkSubfolders(st, fs, folderPath, subfolders, i, depth, opts, env) ==
    IF i > Len(subfolders) THEN st
    ELSE WalkSubfolders(walkFolder(st, fs, Join(folderPath, subfolders[i].name),
                                   depth + 1, opts, env),
                        fs, folderPath, subfolders, i + 1, depth, opts, env)

\* a walker that also takes a folder with subfolders as a book
WalkEntries_FolderToo(st, fs, folderPath, entries, depth, opts, env) ==
    IF Len(Subfolders(entries)) > 0 /\ opts.recursive
    THEN PushCandidate(
             SinglesLoop(WalkSubfolders(st, fs, folderPath, Subfolders(entries), 1,
                                        depth, opts, env),
                         folderPath, StandaloneAudiobooks(entries), 1, env),
             processFolderAsBook(fs, folderPath, env))
    ELSE IF Len(AudioFiles(entries)) > 0
    THEN PushCandidate(st, processFolderAsBook(fs, folderPath, env))
    ELSE IF Len(StandaloneAudiobooks(entries)) > 0
    THEN SinglesLoop(st, folderPath, StandaloneAudiobooks(entries), 1, env)
    ELSE st

WalkEntries(st, fs, folderPath, entries, depth, opts, env) ==
    IF Len(Subfolders(entries)) > 0 /\ opts.recursive
    THEN SinglesLoop(WalkSubfolders(st, fs, folderPath, Subfolders(entries), 1,
                                    depth, opts, env),
                     folderPath, StandaloneAudiobooks(entries), 1, env)
    ELSE IF Len(AudioFiles(entries)) > 0
    THEN PushCandidate(st, processFolderAsBook(fs, folderPath, env))
    ELSE IF Len(StandaloneAudiobooks(entries)) > 0
    THEN SinglesLoop(st, folderPath, StandaloneAudiobooks(entries), 1, env)
    ELSE st

\* env.walkFail: the folders whose readdirSync throws in walkFolder
WalkCounted(st, fs, folderPath, depth, opts, env) ==
    IF folderPath \in env.walkFail THEN WalkCaught(st, folderPath)
    ELSE WalkEntries(st, fs, folderPath, fs[folderPath], depth, opts, env)

\* a walker that counts the folder before it looks at the depth
walkFolder_CountsFirst(st, fs, folderPath, depth, opts, env) ==
    IF depth > opts.maxDepth
    THEN [st EXCEPT !.scannedFolders = @ + 1,
                    !.walked = Append(@, folderPath),
                    !.warnings = Append(@, <<"Max depth reached at", folderPath>>)]
    ELSE WalkCounted([st EXCEPT !.scannedFolders = @ + 1,
                                !.walked = Append(@, folderPath)],
                     fs, folderPath, depth, opts, env)

walkFolder(st, fs, folderPath, depth, opts, env) ==
    IF depth > opts.maxDepth
    THEN [st EXCEPT !.warnings = Append(@, <<"Max depth reached at", folderPath>>)]
    ELSE WalkCounted([st EXCEPT !.scannedFolders = @ + 1,
                                !.walked = Append(@, folderPath)],
                     fs, folderPath, depth, opts, env)

ScanResponse(st) ==
    [ok |-> TRUE, candidates |-> st.candidates,
     scannedFolders |-> st.scannedFolders, warnings |-> st.warnings,
     walked |-> st.walked]

\* what fs.existsSync and fs.statSync(...).isDirectory() see of a path
PathKind(fs, p) ==
    IF p \in DOMAIN fs THEN "dir"
    ELSE IF Len(p) > 1 /\ SubSeq(p, 1, Len(p) - 1) \in DOMAIN fs
            /\ \E i \in 1..Len(fs[SubSeq(p, 1, Len(p) - 1)]) :
                  fs[SubSeq(p, 1, Len(p) - 1)][i].name = p[Len(p)]
    THEN "file"
    ELSE "missing"

scanFolder(fs, rootPath, opts, env) ==
    IF PathKind(fs, rootPath) = "missing"
    THEN [ok |-> FALSE, error |-> <<"Path does not exist", rootPath>>]
    ELSE IF PathKind(fs, rootPath) # "dir"
    THEN [ok |-> FALSE, error |-> <<"Path is not a directory", rootPath>>]
    ELSE ScanResponse(walkFolder([candidates |-> <<>>, warnings |-> <<>>,
                                  scannedFolders |-> 0, walked |-> <<>>],
                                 fs, rootPath, 0, opts, env))

(* ------------------------------- numbers ------------------------------ *)

\* A JavaScript number is a finite value held in hundredths, Infinity or NaN.
Num(v) == [kind |-> "num", val |-> v]
Infinity == [kind |-> "inf", val |-> 0]
NaN == [kind |-> "nan", val |-> 0]

DigitValue(c) ==
    CASE c = "0" -> 0
      [] c = "1" -> 1
      [] c = "2" -> 2
      [] c = "5" -> 5

\* the run of digits of s from index i on: its value and the index after it
RECURSIVE ReadDigits(_, _, _)
ReadDigits(s, i, acc) ==
    IF i <= Len(s) /\ IsDigit(s[i])
    THEN ReadDigits(s, i + 1, acc * 10 + DigitValue(s[i]))
    ELSE [val |-> acc, next |-> i]

\* k digits after the point, in hundredths
FractionValue(val, k) ==
    CASE k = 0 -> 0
      [] k = 1 -> val * 10
      [] k = 2 -> val
      [] OTHER -> val \div (10 ^ (k - 2))

ParsedFraction(s, ip, fp) ==
    IF ip.next = 1 /\ fp.next = ip.next + 1 THEN NaN
    ELSE Num(ip.val * 100 + FractionValue(fp.val, fp.next - (ip.next + 1)))

ParsedInteger(s, ip) ==
    IF ip.next <= Len(s) /\ s[ip.next] = "."
    THEN ParsedFraction(s, ip, ReadDigits(s, ip.next + 1, 0))
    ELSE IF ip.next = 1 THEN NaN
    ELSE Num(ip.val * 100)

\* parseFloat on texts without sign and exponent: leading white space is
\* skipped, the longest numeric prefix is read, the rest is ignored
parseFloat(s) == ParsedInteger(TrimStart(s), ReadDigits(TrimStart(s), 1, 0))

\* the sign of a - b as Array.prototype.sort reads it: NaN counts as 0
MinusSign(a, b) ==
    IF a.kind = "nan" \/ b.kind = "nan" THEN 0
    ELSE IF a.kind = "inf" /\ b.kind = "inf" THEN 0
    ELSE IF a.kind = "inf" THEN 1
    ELSE IF b.kind = "inf" THEN -1
    ELSE IF a.val < b.val THEN -1
    ELSE IF a.val > b.val THEN 1
    ELSE 0

(* ----------------------------- catalog query -------------------------- *)

\* value || '' on a text cell
OrEmpty(c) == IF c = None THEN <<>> ELSE c[1]

\* a text cell that is neither null nor ''
Truthy(c) == c # None /\ c[1] # <<>>

parseNarrators(narratorString) ==
    IF ~Truthy(narratorString) THEN <<>>
    ELSE SelectSeq([i \in 1..Len(SplitOnComma(narratorString[1])) |->
                       Trim(SplitOnComma(narratorString[1])[i])],
                   LAMBDA n : Len(n) > 0)

\* the property names every object takes from Object.prototype
ObjectPrototypeNames == {<<"constructor">>}

\* narratorRatings[n] != null, narratorRatings being the rating rows of the book
HasRating(narratorRatings, n) ==
    IF \E r \in narratorRatings : r.narrator_name = n
    THEN \E r \in narratorRatings : r.narrator_name = n /\ r.rating # None
    ELSE n \in ObjectPrototypeNames

isBookFullyRated(bookRating, narrators, narratorRatings) ==
    IF bookRating = None THEN FALSE
    ELSE IF Len(narrators) = 0 THEN TRUE
    ELSE \A i \in 1..Len(narrators) : HasRating(narratorRatings, narrators[i])

FirstById(tbl) == CHOOSE r \in tbl : \A x \in tbl : r.id <= x.id

\* ORDER BY id
RECURSIVE OrderById(_)
OrderById(tbl) ==
    IF tbl = {} THEN <<>>
    ELSE <<FirstById(tbl)>> \o OrderById(tbl \ {FirstById(tbl)})

\* (row.date as string) || new Date().toISOString(); a timestamp is a number
\* and texts of timestamps compare as the numbers do
DateOrNow(c, now) == IF c = None THEN now ELSE c[1]

BookSummary(row, ratings, now) ==
    [id |-> row.id,
     title |-> row.title[1],
     author |-> row.author,
     series |-> row.series,
     series_book_number |-> row.series_book_number,
     duration_seconds |-> row.duration_seconds,
     is_duplicate |-> row.is_duplicate = Some(1),
     status |-> row.status,
     book_rating |-> row.book_rating,
     cover_image_path |-> row.cover_image_path,
     missing_from_csv |-> row.missing_from_csv = 1,
     narrator |-> row.narrator,
     narrators |-> parseNarrators(row.narrator),
     narratorRatings |-> {r \in ratings : r.book_id = row.id},
     date_added |-> DateOrNow(row.date_added, now),
     date_updated |-> DateOrNow(row.date_updated, now)]

Summaries(rows, ratings, now) ==
    [i \in 1..Len(rows) |-> BookSummary(rows[i], ratings, now)]

getAllBooksWithNarrators(tbl, ratings, now) ==
    Summaries(OrderById(tbl), ratings, now)

bookMatchesSearch(book, searchLower) ==
    \/ includes(toLowerCase(book.title), searchLower)
    \/ Truthy(book.author) /\ includes(toLowerCase(book.author[1]), searchLower)
    \/ Truthy(book.narrator) /\ includes(toLowerCase(book.narrator[1]), searchLower)

ALLOWED_BOOK_SORT_FIELDS ==
    {"title", "author", "narrator", "book_rating", "date_added", "status",
     "series", "series_book_number"}

parseSeriesNumber(value) ==
    IF ~Truthy(value) THEN Infinity
    ELSE IF parseFloat(value[1]).kind = "nan" THEN Infinity
    ELSE parseFloat(value[1])

statusOrder(status) ==
    CASE status = "not_started" -> 0
      [] status = "in_progress" -> 1
      [] status = "finished" -> 2

\* the two returns at the end of a comparator
StringOrder(aVal, bVal, sortDir) ==
    IF sortDir = "asc" THEN localeCompare(aVal, bVal) ELSE localeCompare(bVal, aVal)

NumberOrder(aVal, bVal, sortDir) ==
    IF sortDir = "asc" THEN MinusSign(aVal, bVal) ELSE MinusSign(bVal, aVal)

FirstNarrator(narrators) == IF Len(narrators) = 0 THEN <<>> ELSE narrators[1]

RatingOrder_NullsAsZero(a, b, sortDir) ==
    NumberOrder(Num(IF a.book_rating = None THEN 0 ELSE a.book_rating[1]),
                Num(IF b.book_rating = None THEN 0 ELSE b.book_rating[1]), sortDir)

RatingOrder(a, b, sortDir) ==
    IF a.book_rating = None /\ b.book_rating = None THEN 0
    ELSE IF a.book_rating = None THEN 1
    ELSE IF b.book_rating = None THEN -1
    ELSE NumberOrder(Num(a.book_rating[1]), Num(b.book_rating[1]), sortDir)

\* the comparator of getBooksFiltered
CompareBooks(a, b, validField, sortDir) ==
    CASE validField = "title" ->
            StringOrder(toLowerCase(a.title), toLowerCase(b.title), sortDir)
      [] validField = "author" ->
            StringOrder(toLowerCase(OrEmpty(a.author)),
                        toLowerCase(OrEmpty(b.author)), sortDir)
      [] validField = "narrator" ->
            StringOrder(toLowerCase(FirstNarrator(a.narrators)),
                        toLowerCase(FirstNarrator(b.narrators)), sortDir)
      [] validField = "book_rating" -> RatingOrder(a, b, sortDir)
      [] validField = "date_added" ->
            NumberOrder(Num(a.date_added), Num(b.date_added), sortDir)
      [] validField = "status" ->
            NumberOrder(Num(statusOrder(a.status)), Num(statusOrder(b.status)),
                        sortDir)
      [] validField = "series" ->
            StringOrder(toLowerCase(OrEmpty(a.series)),
                        toLowerCase(OrEmpty(b.series)), sortDir)
      [] validField = "series_book_number" ->
            NumberOrder(parseSeriesNumber(a.series_book_number),
                        parseSeriesNumber(b.series_book_number), sortDir)
      [] OTHER ->
            StringOrder(toLowerCase(a.title), toLowerCase(b.title), sortDir)

(* --------------------------- series aggregation ----------------------- *)

\* safeString of getSeriesStats
safeString(value) == IF value = None THEN <<>> ELSE Trim(value[1])

parseBookNumber(value) ==
    IF value = None THEN Infinity
    ELSE IF Trim(value[1]) = <<>> THEN Infinity
    ELSE IF parseFloat(Trim(value[1])).kind = "nan" THEN Infinity
    ELSE parseFloat(Trim(value[1]))

\* the comparator of findCoverBook
CompareCover_DateOnly(a, b, isStandalone) ==
    MinusSign(Num(a.date_added), Num(b.date_added))

CompareCover(a, b, isStandalone) ==
    IF isStandalone THEN MinusSign(Num(a.date_added), Num(b.date_added))
    ELSE IF parseBookNumber(a.series_book_number)
              # parseBookNumber(b.series_book_number)
    THEN MinusSign(parseBookNumber(a.series_book_number),
                   parseBookNumber(b.series_book_number))
    ELSE MinusSign(Num(a.date_added), Num(b.date_added))

\* a quotient num / den of two counts, kept as the pair
Ratio(num, den) == [num |-> num, den |-> den]

RatioSign(x, y) ==
    IF x.num * y.den < y.num * x.den THEN -1
    ELSE IF x.num * y.den > y.num * x.den THEN 1
    ELSE 0

RatioOrder(aVal, bVal, sortDir) ==
    IF sortDir = "asc" THEN RatioSign(aVal, bVal) ELSE RatioSign(bVal, aVal)

\* the comparator of getSeriesStats
CompareSeries(a, b, sortField, sortDir) ==
    CASE sortField = "bookCount" ->
            RatioOrder(Ratio(a.bookCount, 1), Ratio(b.bookCount, 1), sortDir)
      [] sortField = "totalDurationSeconds" ->
            RatioOrder(Ratio(a.totalDurationSeconds, 1),
                       Ratio(b.totalDurationSeconds, 1), sortDir)
      [] sortField = "avgBookRating" ->
            IF a.avgBookRating = None /\ b.avgBookRating = None THEN 0
            ELSE IF a.avgBookRating = None THEN 1
            ELSE IF b.avgBookRating = None THEN -1
            ELSE RatioOrder(a.avgBookRating[1], b.avgBookRating[1], sortDir)
      [] sortField = "completionPercent" ->
            RatioOrder(a.completionPercent, b.completionPercent, sortDir)
      [] OTHER ->
            StringOrder(toLowerCase(a.seriesName), toLowerCase(b.seriesName),
                        sortDir)

\* how an array is sorted: by which comparator and with which arguments
BooksBy(validField, sortDir) ==
    [sort |-> "books", field |-> validField, dir |-> sortDir, standalone |-> FALSE]
CoverBy(isStandalone) ==
    [sort |-> "cover", field |-> "", dir |-> "", standalone |-> isStandalone]
SeriesBy(sortField, sortDir) ==
    [sort |-> "series", field |-> sortField, dir |-> sortDir, standalone |-> FALSE]

Compare(how, a, b) ==
    CASE how.sort = "books" -> CompareBooks(a, b, how.field, how.dir)
      [] how.sort = "cover" -> CompareCover(a, b, how.standalone)
      [] how.sort = "series" -> CompareSeries(a, b, how.field, how.dir)

\* Array.prototype.sort, which is stable: x goes before the first element that
\* the comparator puts after it
RECURSIVE InsertSorted(_, _, _)
InsertSorted(sorted, x, how) ==
    IF sorted = <<>> THEN <<x>>
    ELSE IF Compare(how, Head(sorted), x) > 0 THEN <<x>> \o sorted
    ELSE <<Head(sorted)>> \o InsertSorted(Tail(sorted), x, how)

RECURSIVE SortFrom(_, _, _, _)
SortFrom(acc, arr, i, how) ==
    IF i > Len(arr) THEN acc
    ELSE SortFrom(InsertSorted(acc, arr[i], how), arr, i + 1, how)

Sorted(arr, how) == SortFrom(<<>>, arr, 1, how)

(* ------------------------------ book list ----------------------------- *)

STANDALONE_KEY == <<"s", "t", "a", "n", "d", "a", "l", "o", "n", "e">>

\* the escapes decodeURIComponent reads back in the model
DecodedEscape(hi, lo) ==
    CASE hi = "2" /\ lo = "0" -> <<" ">>
      [] hi = "2" /\ lo = "C" -> <<",">>
      [] hi = "2" /\ lo = "5" -> <<"%">>
      [] OTHER -> None

\* decodeURIComponent: [threw, text]; a % without a known escape is an URIError
RECURSIVE DecodeFrom(_, _, _)
DecodeFrom(s, i, acc) ==
    IF i > Len(s) THEN [threw |-> FALSE, text |-> acc]
    ELSE IF s[i] # "%" THEN DecodeFrom(s, i + 1, Append(acc, s[i]))
    ELSE IF i + 2 > Len(s) THEN [threw |-> TRUE, text |-> <<>>]
    ELSE IF DecodedEscape(s[i + 1], s[i + 2]) = None
    THEN [threw |-> TRUE, text |-> <<>>]
    ELSE DecodeFrom(s, i + 3, acc \o DecodedEscape(s[i + 1], s[i + 2]))

decodeURIComponent(s) == DecodeFrom(s, 1, <<>>)

SearchFilter(arr, filters) ==
    IF Truthy(filters.search) /\ Trim(filters.search[1]) # <<>>
    THEN SelectSeq(arr, LAMBDA b :
            \/ includes(toLowerCase(b.title), toLowerCase(Trim(filters.search[1])))
            \/ Truthy(b.author)
                 /\ includes(toLowerCase(b.author[1]),
                             toLowerCase(Trim(filters.search[1])))
            \/ Truthy(b.series)
                 /\ includes(toLowerCase(b.series[1]),
                             toLowerCase(Trim(filters.search[1])))
            \/ Truthy(b.narrator)
                 /\ includes(toLowerCase(b.narrator[1]),
                             toLowerCase(Trim(filters.search[1]))))
    ELSE arr

\* a list that the statuses of the request do not narrow
StatusFilter_Skipped(arr, filters) == arr

StatusFilter(arr, filters) ==
    IF filters.statuses # None /\ Len(filters.statuses[1]) > 0
    THEN SelectSeq(arr, LAMBDA b : b.status \in Range(filters.statuses[1]))
    ELSE arr

RatingFilter(arr, filters) ==
    IF filters.ratingFilter = Some("fullyRated")
    THEN SelectSeq(arr, LAMBDA b :
            isBookFullyRated(b.book_rating, b.narrators, b.narratorRatings))
    ELSE IF filters.ratingFilter = Some("unrated")
    THEN SelectSeq(arr, LAMBDA b :
            ~isBookFullyRated(b.book_rating, b.narrators, b.narratorRatings))
    ELSE arr

\* [threw, books]
SeriesKeyFilter(arr, filters) ==
    IF ~Truthy(filters.seriesKey) THEN [threw |-> FALSE, books |-> arr]
    ELSE IF filters.seriesKey[1] = STANDALONE_KEY
    THEN [threw |-> FALSE,
          books |-> SelectSeq(arr, LAMBDA b : safeString(b.series) = <<>>)]
    ELSE IF decodeURIComponent(filters.seriesKey[1]).threw
    THEN [threw |-> TRUE, books |-> <<>>]
    ELSE [threw |-> FALSE,
          books |-> SelectSeq(arr, LAMBDA b :
                       b.series = Some(decodeURIComponent(filters.seriesKey[1]).text))]

\* sort?.field || 'title' and sort?.direction || 'asc'
FieldOr(sort, default) ==
    IF sort = None \/ sort[1].field = "" THEN default ELSE sort[1].field
DirectionOr(sort, default) ==
    IF sort = None \/ sort[1].direction = "" THEN default ELSE sort[1].direction

ValidField(sortField) ==
    IF sortField \in ALLOWED_BOOK_SORT_FIELDS THEN sortField ELSE "title"

SortBooks(filtered, sort) ==
    IF filtered.threw THEN filtered
    ELSE [threw |-> FALSE,
          books |-> Sorted(filtered.books,
                           BooksBy(ValidField(FieldOr(sort, "title")),
                                   DirectionOr(sort, "asc")))]

\* [threw, books]
getBooksFiltered(tbl, ratings, filters, sort, now) ==
    SortBooks(SeriesKeyFilter(
                  RatingFilter(
                      StatusFilter(
                          SearchFilter(getAllBooksWithNarrators(tbl, ratings, now),
                                       filters),
                          filters),
                      filters),
                  filters),
              sort)

(* GET /api/books.  A request holds the query parameters as cells; the sort *)
(* parameter is held as its parts between the dashes.                      *)

BOOK_SORT_FIELDS_OF_ROUTE ==
    {"title", "author", "narrator", "book_rating", "date_added", "status",
     "series", "series_book_number"}

\* searchParams.get(name) || undefined
ParamOrUndefined(c) == IF Truthy(c) THEN c ELSE None

ParsedStatuses(statusParam) ==
    IF statusParam = None \/ statusParam = Some(<<>>) THEN None
    ELSE Some(SelectSeq(statusParam[1], LAMBDA s : s \in BOOK_STATUSES))

\* statuses?.length ? statuses : undefined
StatusesOrUndefined(statuses) ==
    IF statuses = None \/ statuses = Some(<<>>) THEN None ELSE statuses

ParsedBookRating(ratingParam) ==
    IF ratingParam \in {Some("fullyRated"), Some("unrated")} THEN ratingParam ELSE None

SortPart(parts, i) == IF Len(parts) >= i THEN parts[i] ELSE ""

ParsedSort_AnyField(sortParam, validFields) ==
    IF sortParam = None THEN None
    ELSE Some([field |-> SortPart(sortParam[1], 1),
               direction |-> SortPart(sortParam[1], 2)])

ParsedSort(sortParam, validFields) ==
    IF sortParam = None \/ sortParam = Some(<<>>) THEN None
    ELSE IF SortPart(sortParam[1], 1) \in validFields
            /\ SortPart(sortParam[1], 2) \in {"asc", "desc"}
    THEN Some([field |-> SortPart(sortParam[1], 1),
               direction |-> SortPart(sortParam[1], 2)])
    ELSE None

BookFilters(request) ==
    [search |-> ParamOrUndefined(request.search),
     statuses |-> StatusesOrUndefined(ParsedStatuses(request.status)),
     ratingFilter |-> ParsedBookRating(request.rating),
     seriesKey |-> ParamOrUndefined(request.seriesKey)]

BooksResponse(result) ==
    IF result.threw THEN [ok |-> FALSE, books |-> <<>>, total |-> 0]
    ELSE [ok |-> TRUE, books |-> result.books, total |-> Len(result.books)]

GetBooks(tbl, ratings, request, now) ==
    BooksResponse(getBooksFiltered(tbl, ratings, BookFilters(request),
                                   ParsedSort(request.sort, BOOK_SORT_FIELDS_OF_ROUTE),
                                   now))

(* ------------------------------ series list --------------------------- *)

STANDALONE_NAME ==
    <<"S", "t", "a", "n", "d", "a", "l", "o", "n", "e", " ", "B", "o", "o", "k", "s">>

\* seriesMap as the list of its entries, in the order the keys were first set
AddToSeries(seriesMap, key, book) ==
    IF \E i \in 1..Len(seriesMap) : seriesMap[i].name = key
    THEN [i \in 1..Len(seriesMap) |->
            IF seriesMap[i].name = key
            THEN [seriesMap[i] EXCEPT !.books = Append(@, book)]
            ELSE seriesMap[i]]
    ELSE Append(seriesMap, [name |-> key, books |-> <<book>>])

GroupKey_Untrimmed(book) == OrEmpty(book.series)

GroupKey(book) == safeString(book.series)

GroupOne(st, book, key) ==
    IF key # <<>>
    THEN [st EXCEPT !.seriesMap = AddToSeries(@, key, book)]
    ELSE [st EXCEPT !.standaloneBooks = Append(@, book)]

RECURSIVE GroupLoop(_, _, _)
GroupLoop(st, allBooks, i) ==
    IF i > Len(allBooks) THEN st
    ELSE GroupLoop(GroupOne(st, allBooks[i], GroupKey(allBooks[i])), allBooks, i + 1)

Grouped(allBooks) ==
    GroupLoop([seriesMap |-> <<>>, standaloneBooks |-> <<>>], allBooks, 1)

WithCover(arr) == SelectSeq(arr, LAMBDA b : Truthy(b.cover_image_path))

CoverOf(book) ==
    [coverBookId |-> Some(book.id), coverUpdatedAt |-> Some(book.date_updated)]

NoCover == [coverBookId |-> None, coverUpdatedAt |-> None]

CoverFrom(sortedBooks) ==
    IF Truthy(sortedBooks[1].cover_image_path) THEN CoverOf(sortedBooks[1])
    ELSE IF Len(WithCover(sortedBooks)) > 0 THEN CoverOf(WithCover(sortedBooks)[1])
    ELSE NoCover

findCoverBook(arr, isStandalone) ==
    IF Len(arr) = 0 THEN NoCover ELSE CoverFrom(Sorted(arr, CoverBy(isStandalone)))

RECURSIVE RatingSum(_, _)
RatingSum(arr, i) ==
    IF i > Len(arr) THEN 0
    ELSE (IF arr[i].book_rating = None THEN 0 ELSE arr[i].book_rating[1])
            + RatingSum(arr, i + 1)

RECURSIVE DurationSum(_, _)
DurationSum(arr, i) ==
    IF i > Len(arr) THEN 0
    ELSE (IF arr[i].duration_seconds = None THEN 0 ELSE arr[i].duration_seconds[1])
            + DurationSum(arr, i + 1)

CountStatus(arr, status) == Len(SelectSeq(arr, LAMBDA b : b.status = status))

RatedBooks(arr) == SelectSeq(arr, LAMBDA b : b.book_rating # None)

CompletionOf(finishedCount, notStartedCount, bookCount) ==
    IF finishedCount = bookCount THEN "finished"
    ELSE IF notStartedCount = bookCount THEN "not_started"
    ELSE "in_progress"

\* memberIds is not part of the answer: it logs the records the statistics are of
StatsOf(seriesKey, seriesName, arr, cover) ==
    [seriesKey |-> seriesKey,
     seriesName |-> seriesName,
     bookCount |-> Len(arr),
     totalDurationSeconds |-> DurationSum(arr, 1),
     finishedCount |-> CountStatus(arr, "finished"),
     notStartedCount |-> CountStatus(arr, "not_started"),
     inProgressCount |-> CountStatus(arr, "in_progress"),
     avgBookRating |->
        IF Len(RatedBooks(arr)) > 0
        THEN Some(Ratio(RatingSum(RatedBooks(arr), 1), Len(RatedBooks(arr))))
        ELSE None,
     ratedCount |-> Len(RatedBooks(arr)),
     unratedCount |->
        Len(SelectSeq(arr, LAMBDA b :
               ~isBookFullyRated(b.book_rating, b.narrators, b.narratorRatings))),
     completionStatus |->
        CompletionOf(CountStatus(arr, "finished"), CountStatus(arr, "not_started"),
                     Len(arr)),
     completionPercent |->
        IF Len(arr) > 0 THEN Ratio(CountStatus(arr, "finished") * 100, Len(arr))
        ELSE Ratio(0, 1),
     coverBookId |-> cover.coverBookId,
     coverUpdatedAt |-> cover.coverUpdatedAt,
     memberIds |-> [i \in 1..Len(arr) |-> arr[i].id]]

\* statistics that call a series finished as soon as one of its books is
computeStats_FinishedWhenAny(seriesKey, seriesName, arr, isStandalone) ==
    [StatsOf(seriesKey, seriesName, arr, findCoverBook(arr, isStandalone))
     EXCEPT !.completionStatus =
                IF CountStatus(arr, "finished") > 0 THEN "finished" ELSE @]

computeStats(seriesKey, seriesName, arr, isStandalone) ==
    StatsOf(seriesKey, seriesName, arr, findCoverBook(arr, isStandalone))

\* filters?.search?.trim().toLowerCase(), '' when there is none
SearchLower(filters) ==
    IF filters.search = None THEN <<>> ELSE toLowerCase(Trim(filters.search[1]))

AnyBookMatches(arr, searchLower) ==
    \E i \in 1..Len(arr) : bookMatchesSearch(arr[i], searchLower)

SeriesShown(entry, searchLower) ==
    \/ searchLower = <<>>
    \/ includes(toLowerCase(entry.name), searchLower)
    \/ AnyBookMatches(entry.books, searchLower)

\* seriesMap.forEach
RECURSIVE SeriesLoop(_, _, _, _)
SeriesLoop(list, seriesMap, i, searchLower) ==
    IF i > Len(seriesMap) THEN list
    ELSE IF ~SeriesShown(seriesMap[i], searchLower)
    THEN SeriesLoop(list, seriesMap, i + 1, searchLower)
    ELSE SeriesLoop(Append(list, computeStats(encodeURIComponent(seriesMap[i].name),
                                              seriesMap[i].name,
                                              seriesMap[i].books, FALSE)),
                    seriesMap, i + 1, searchLower)

StandaloneShown_ByNameToo(standaloneBooks, searchLower) ==
    /\ Len(standaloneBooks) > 0
    /\ \/ searchLower = <<>>
       \/ includes(toLowerCase(STANDALONE_NAME), searchLower)
       \/ AnyBookMatches(standaloneBooks, searchLower)

StandaloneShown(standaloneBooks, searchLower) ==
    /\ Len(standaloneBooks) > 0
    /\ (searchLower = <<>> \/ AnyBookMatches(standaloneBooks, searchLower))

AddStandalone(list, standaloneBooks, searchLower) ==
    IF StandaloneShown(standaloneBooks, searchLower)
    THEN Append(list, computeStats(STANDALONE_KEY, STANDALONE_NAME,
                                   standaloneBooks, TRUE))
    ELSE list

SeriesRatingFilter(list, filters) ==
    IF filters.ratingFilter = Some("fullyRated")
    THEN SelectSeq(list, LAMBDA s : s.ratedCount = s.bookCount /\ s.bookCount > 0)
    ELSE IF filters.ratingFilter = Some("partlyRated")
    THEN SelectSeq(list, LAMBDA s : s.ratedCount > 0 /\ s.ratedCount < s.bookCount)
    ELSE IF filters.ratingFilter = Some("unrated")
    THEN SelectSeq(list, LAMBDA s : s.ratedCount = 0)
    ELSE list

CompletionFilter(list, filters) ==
    IF filters.completionStatus # None
    THEN SelectSeq(list, LAMBDA s : Some(s.completionStatus) = filters.completionStatus)
    ELSE list

SeriesList(grouped, filters) ==
    CompletionFilter(
        SeriesRatingFilter(
            AddStandalone(SeriesLoop(<<>>, grouped.seriesMap, 1, SearchLower(filters)),
                          grouped.standaloneBooks, SearchLower(filters)),
            filters),
        filters)

getSeriesStats(tbl, ratings, filters, sort, now) ==
    Sorted(SeriesList(Grouped(getAllBooksWithNarrators(tbl, ratings, now)), filters),
           SeriesBy(FieldOr(sort, "seriesName"), DirectionOr(sort, "asc")))

(* GET /api/series *)

SERIES_SORT_FIELDS_OF_ROUTE ==
    {"seriesName", "bookCount", "totalDurationSeconds", "avgBookRating",
     "completionPercent"}

ParsedSeriesRating(ratingParam) ==
    IF ratingParam \in {Some("fullyRated"), Some("partlyRated"), Some("unrated")}
    THEN ratingParam
    ELSE None

ParsedCompletion(completionParam) ==
    IF completionParam \in {Some("not_started"), Some("in_progress"), Some("finished")}
    THEN completionParam
    ELSE None

SeriesFilters(request) ==
    [search |-> ParamOrUndefined(request.search),
     ratingFilter |-> ParsedSeriesRating(request.rating),
     completionStatus |-> ParsedCompletion(request.completion)]

GetSeries(tbl, ratings, request, now) ==
    [ok |-> TRUE,
     series |-> getSeriesStats(tbl, ratings, SeriesFilters(request),
                               ParsedSort(request.sort, SERIES_SORT_FIELDS_OF_ROUTE),
                               now)]

(* ------------------------------- inputs ------------------------------- *)

P_f == <<"lib", "f">>
P_fa == <<"lib", "f", "1.m4b">>
P_fb == <<"lib", "f", "2.m4b">>
P_g == <<"lib", "g.m4b">>

\* a row of a CSV file as parseCsvFile returns it: title trimmed and possibly
\* empty, the optional columns null when blank, series = exact name || name
ParsedBook(p, v) ==
    IF v = 1
    THEN [path |-> p, type |-> "Folder", title |-> "T1",
          author |-> Some("a1"), narrator |-> Some("n1"),
          duration_seconds |-> Some(100), has_embedded_cover |-> Some(TRUE),
          total_size_bytes |-> Some(10), file_count |-> Some(2),
          is_duplicate |-> Some(FALSE), series |-> Some("s1"),
          series_book_number |-> Some("1"), series_ended |-> Some(FALSE),
          series_name_raw |-> Some("s1"), series_exact_name_raw |-> None]
    ELSE [path |-> p, type |-> "SingleFile", title |-> "",
          author |-> None, narrator |-> None,
          duration_seconds |-> None, has_embedded_cover |-> None,
          total_size_bytes |-> None, file_count |-> None,
          is_duplicate |-> None, series |-> None,
          series_book_number |-> None, series_ended |-> None,
          series_name_raw |-> None, series_exact_name_raw |-> None]

\* the i-th entry of a request carries the first metadata when i is odd
VariantAt(i) == IF i % 2 = 1 THEN 1 ELSE 2

CsvPaths == {P_f, P_fa, P_g}

PathSeqs(S, n) == UNION {[1..k -> S] : k \in 0..n}

\* the files a CSV import can be given: rows over CsvPaths, paths may repeat
CsvFiles ==
    {[i \in 1..Len(ps) |-> ParsedBook(ps[i], VariantAt(i))] :
        ps \in PathSeqs(CsvPaths, MaxBatch)}

\* a reviewed candidate as handleCommit sends it
Candidate(shape, v) ==
    LET meta == IF v = 1
                THEN [title |-> "C1", author |-> Some("b1"), narrator |-> Some("m1, m2"),
                      series |-> Some("r1"), seriesBookNumber |-> Some("2.5"),
                      durationSeconds |-> Some(300), hasEmbeddedCover |-> TRUE]
                ELSE [title |-> "C2", author |-> None, narrator |-> None,
                      series |-> None, seriesBookNumber |-> None,
                      durationSeconds |-> None, hasEmbeddedCover |-> FALSE]
    IN IF shape = "g"
       THEN [path |-> P_g, type |-> "SingleFile", title |-> meta.title,
             author |-> meta.author, narrator |-> meta.narrator,
             series |-> meta.series, seriesBookNumber |-> meta.seriesBookNumber,
             durationSeconds |-> meta.durationSeconds,
             totalSizeBytes |-> Some(30), fileCount |-> Some(1),
             hasEmbeddedCover |-> meta.hasEmbeddedCover,
             multipleM4bFiles |-> FALSE, userDecision |-> None,
             m4bFilePaths |-> None]
       ELSE [path |-> P_f, type |-> "Folder", title |-> meta.title,
             author |-> meta.author, narrator |-> meta.narrator,
             series |-> meta.series, seriesBookNumber |-> meta.seriesBookNumber,
             durationSeconds |-> meta.durationSeconds,
             totalSizeBytes |-> Some(50), fileCount |-> Some(3),
             hasEmbeddedCover |-> meta.hasEmbeddedCover,
             multipleM4bFiles |-> TRUE,
             userDecision |-> IF shape = "unset" THEN None ELSE Some(shape),
             m4bFilePaths |-> Some(<<P_fa, P_fb>>)]

Shapes == {"g", "unset", "single", "multiple"}

CommitBatches ==
    {[i \in 1..Len(ss) |-> Candidate(ss[i], VariantAt(i))] :
        ss \in PathSeqs(Shapes, MaxBatch) \ {<<>>}}

\* the part files statSync is called on, and the paths a cover is extracted for
StatTargets(bs) ==
    UNION {Range(bs[i].m4bFilePaths[1]) :
            i \in {j \in 1..Len(bs) : bs[j].userDecision = Some("multiple")}}

\* what the file system gives a commit request: at most one part file is gone,
\* and cover extraction works for all audio files or for none
CommitEnvs(bs) ==
    IF pendingDecisions(bs) # {} THEN {[gone |-> {}, covers |-> {}]}
    ELSE {[gone |-> g, covers |-> c] :
            g \in {{}} \cup {{p} : p \in StatTargets(bs)},
            c \in IF \E i \in 1..Len(bs) : bs[i].hasEmbeddedCover
                  THEN {{}, {P_f, P_fa, P_fb, P_g}} ELSE {{}}}

UpdateInputs ==
    {[status |-> Some("finished"), book_rating |-> Some(Some(5)),
      tags |-> None, notes |-> None],
     [status |-> None, book_rating |-> Some(None),
      tags |-> Some(Some("t2")), notes |-> Some(Some("n2"))]}

RatingInputs ==
    {<<[narratorName |-> "n1", rating |-> Some(3)]>>,
     <<[narratorName |-> "n1", rating |-> None],
       [narratorName |-> "m1", rating |-> Some(1)]>>}

D_lib == <<"lib">>
D_A == <<"lib", "A">>
D_A1 == <<"lib", "A", "A1">>
D_B == <<"lib", "B">>

\* a directory listing: the names in a fixed order
NameOrder == <<"1.m4b", "2.M4B", "A", "A1", "B", "n.txt", "t.mp3">>

ListingOf(names, dirs) ==
    [i \in 1..Len(names) |->
        [name |-> names[i], kind |-> IF names[i] \in dirs THEN "dir" ELSE "file"]]

Listing(files, dirs) ==
    ListingOf(SelectSeq(NameOrder, LAMBDA n : n \in files \cup dirs), dirs)

RootProfiles == {{}, {"1.m4b"}, {"1.m4b", "2.M4B"}}

Profiles ==
    {{"n.txt"}, {"t.mp3"}, {"1.m4b"}, {"1.m4b", "t.mp3"}, {"1.m4b", "2.M4B"},
     {"1.m4b", "2.M4B", "t.mp3", "n.txt"}}

\* lib holds A and B; A holds A1 or is a leaf
TreeOf(hasA1, fr, fa, fb, fa1) ==
    [d \in {D_lib, D_A, D_B} \cup (IF hasA1 THEN {D_A1} ELSE {}) |->
        CASE d = D_lib -> Listing(fr, {"A", "B"})
          [] d = D_A -> Listing(fa, IF hasA1 THEN {"A1"} ELSE {})
          [] d = D_B -> Listing(fb, {})
          [] OTHER -> Listing(fa1, {})]

Trees ==
    {TreeOf(TRUE, fr, fa, fb, fa1) :
        fr \in RootProfiles, fa \in Profiles, fb \in Profiles, fa1 \in Profiles}
    \cup {TreeOf(FALSE, fr, fa, fb, {}) :
            fr \in RootProfiles, fa \in Profiles, fb \in Profiles}

IdleTree == TreeOf(FALSE, {}, {"n.txt"}, {"n.txt"}, {})

ScanOptions == [recursive : BOOLEAN, maxDepth : {0, 1, DefaultMaxDepth}]

AudioPathsIn(fs, d) ==
    {Join(d, fs[d][i].name) :
        i \in {k \in 1..Len(fs[d]) : fs[d][k].kind = "file" /\ isAudioFile(fs[d][k].name)}}

AudioPathsOf(fs) == UNION {AudioPathsIn(fs, d) : d \in DOMAIN fs}

\* the reads that can fail during a scan of fs
FailurePoints(fs) ==
    {<<"walk", d>> : d \in DOMAIN fs} \cup {<<"content", d>> : d \in DOMAIN fs}
    \cup {<<"stat", f>> : f \in AudioPathsOf(fs)}
    \cup {<<"tags", f>> : f \in AudioPathsOf(fs)}

RECURSIVE UpTo(_, _)
UpTo(points, k) ==
    IF k = 0 THEN {{}}
    ELSE UpTo(points, k - 1)
         \cup {S \cup {x} : S \in UpTo(points, k - 1), x \in points}

EnvOf(S) ==
    [walkFail |-> {x[2] : x \in {y \in S : y[1] = "walk"}},
     contentFail |-> {x[2] : x \in {y \in S : y[1] = "content"}},
     statFail |-> {x[2] : x \in {y \in S : y[1] = "stat"}},
     tagFail |-> {x[2] : x \in {y \in S : y[1] = "tags"}}]

ScanEnvs(fs) == {EnvOf(S) : S \in UpTo(FailurePoints(fs), MaxFailures)}

NoScan == [n |-> 0, root |-> <<>>, options |-> <<>>, env |-> <<>>, response |-> <<>>]

NoQuery ==
    [n |-> 0, op |-> "none", input |-> <<>>, now |-> 0, response |-> <<>>,
     previous |-> <<>>]

NoName == [n |-> 0, name |-> <<>>, form |-> <<>>, result |-> <<>>]

(* -------------------------------- names ------------------------------- *)

MaxParses == 1     \* calls of the naming heuristic per behaviour of SpecName

SeriesTexts ==
    {<<"M">>, <<"M", "y", " ", "S">>, <<"C", "-", "2", "2">>,
     <<"[", "a", "]", " ", "M">>}

NumberTexts == {<<"2">>, <<"2", ".", "5">>, <<"0", "1">>}

TitleTexts == {<<"T">>, <<"T", " ", "-", " ", "U">>, <<"T", "2">>}

BookWords == {<<>>, <<"B", "o", "o", "k", " ">>, <<"b", "o", "o", "k", " ">>}

Separator == <<" ", "-", " ">>

\* "<series> - Book <n> - <title>" and "<series> - <n> - <title>", each with
\* the parts it was written from
FormName(series, book, number, title) ==
    [name |-> series \o Separator \o book \o number \o Separator \o title,
     form |-> Some([series |-> series, number |-> number, title |-> title])]

FormNames ==
    {FormName(s, b, n, t) :
        s \in SeriesTexts, b \in BookWords, n \in NumberTexts, t \in TitleTexts}

\* other names: without a dash, with a dash that separates nothing, of the
\* second and the third pattern, with en dashes, without spaces
FreeNames ==
    {[name |-> x, form |-> None] :
        x \in {<<"S", "t", "a", "n", "d">>, <<"M", " ", "2">>, <<"M", " ", "T">>,
               <<"[", "a", "]", " ", "M">>, <<"B", "o", "o", "k", " ", "2">>,
               <<"2", ".", "5">>, <<" ", "M", " ">>,
               <<"S", "-", "M">>, <<"C", "-", "2", "2">>,
               <<"M", " ", "-", " ", "B", "o", "o", "k", " ", "2">>,
               <<"M", " ", "-", " ", "2", ".", "5">>,
               <<"M", " ", "-", " ", "T">>, <<"M", " ", "-", " ", "2", ".">>,
               <<"M", " ", "-", " ", "2", " ", "-">>,
               <<"M", " ", "-", " ", "2", " ", "-", " ">>,
               <<"M", "-", "2", "-", "T">>,
               <<"M", " ", "ndash", " ", "2", " ", "ndash", " ", "T">>,
               <<"[", "a", "]", " ", "M", " ", "-", " ", "T">>,
               <<"[", "a", "]", " ", "-", " ", "T">>,
               <<"[", "a", "]", "-", "T">>,
               <<"[", "]", " ", "M", " ", "-", " ", "T">>,
               <<" ", "-", " ", "2", " ", "-", " ", "T">>}}

Names == FormNames \cup FreeNames

(* ---------------------------- stored catalogs ------------------------- *)

MaxRows == 3       \* rows of a stored catalog
MaxQueries == 1    \* read requests per behaviour of SpecQuery
MaxRepeats == 2    \* series requests per behaviour of SpecRepeat

\* the columns the queries select, of a row still without its id
StoredRow(title, author, narrator, series, position, rating, status, duration,
          cover, added, updated) ==
    [id |-> 0, title |-> Some(title), author |-> author, series |-> series,
     series_book_number |-> position, duration_seconds |-> duration,
     is_duplicate |-> None, status |-> status, book_rating |-> rating,
     narrator |-> narrator, date_added |-> added, date_updated |-> updated,
     cover_image_path |-> cover, missing_from_csv |-> 0]

Rated(name, rating) == [narrator_name |-> name, rating |-> rating]

Stored(row, ratings) == [row |-> row, ratings |-> ratings]

COVER == Some(<<"c">>)

\* rows a catalog may hold, each with the narrator ratings stored for it
RowPool ==
    << Stored(StoredRow(<<"a">>, Some(<<"b">>), Some(<<"A", ",", " ", "B">>),
                        Some(<<"S">>), Some(<<"1">>), Some(4), "finished",
                        Some(10), None, Some(1), Some(1)),
              {Rated(<<"A">>, Some(5)), Rated(<<"B">>, None)}),
       Stored(StoredRow(<<"B">>, None, Some(<<"A", ",", "B">>),
                        Some(<<"S">>), Some(<<"2">>), Some(5), "finished",
                        Some(20), COVER, Some(2), Some(2)),
              {Rated(<<"A">>, Some(5)), Rated(<<"B">>, Some(3))}),
       Stored(StoredRow(<<"b">>, Some(<<>>), None,
                        Some(<<" ", "S">>), Some(<<"1", "0">>), None, "not_started",
                        None, COVER, Some(3), None),
              {}),
       Stored(StoredRow(<<"s">>, Some(<<"x">>), Some(<<"constructor">>),
                        None, None, Some(3), "in_progress",
                        Some(5), COVER, Some(1), Some(2)),
              {}),
       Stored(StoredRow(<<"x">>, None, Some(<<",", "A", ",", " ", ",">>),
                        Some(<<>>), Some(<<"x">>), Some(4), "not_started",
                        Some(5), None, None, Some(1)),
              {Rated(<<"A">>, Some(5))}),
       Stored(StoredRow(<<"a", " ", "b">>, Some(<<"k">>), Some(<<"B">>),
                        Some(<<"s">>), Some(<<"1", ".", "5">>), Some(3), "finished",
                        Some(10), COVER, Some(2), Some(3)),
              {}),
       Stored(StoredRow(<<"A">>, Some(<<"o">>), Some(<<" ">>),
                        Some(<<" ">>), Some(<<"1">>), None, "finished",
                        None, COVER, Some(3), Some(3)),
              {}),
       Stored(StoredRow(<<"k">>, Some(<<"s">>), Some(<<"A">>),
                        Some(<<"S">>), Some(<<>>), None, "in_progress",
                        Some(20), COVER, Some(1), Some(1)),
              {Rated(<<"A">>, Some(5))}),
       Stored(StoredRow(<<"o">>, None, Some(<<"B", ",", "A">>),
                        Some(<<"S">>), Some(<<"2", "x">>), Some(3), "not_started",
                        Some(5), COVER, Some(1), Some(2)),
              {Rated(<<"A">>, None), Rated(<<"B">>, Some(2))}),
       Stored(StoredRow(<<"x", "1">>, Some(<<"a">>), Some(<<>>),
                        Some(<<"x">>), Some(<<" ", "2">>), Some(5), "not_started",
                        Some(5), None, Some(2), None),
              {}),
       Stored(StoredRow(<<"d">>, None, None,
                        Some(STANDALONE_KEY), Some(<<"1">>), Some(2), "in_progress",
                        Some(5), None, Some(2), Some(2)),
              {}) >>

\* the ids of the chosen rows follow the order of the pool, or its reverse
IdIn(S, k, order) ==
    IF order = "up" THEN Cardinality({j \in S : j <= k})
    ELSE Cardinality({j \in S : j >= k})

CatalogOf(S, order) ==
    [books |-> {[RowPool[k].row EXCEPT !.id = IdIn(S, k, order)] : k \in S},
     ratings |-> UNION {{[book_id |-> IdIn(S, k, order),
                          narrator_name |-> r.narrator_name,
                          rating |-> r.rating] : r \in RowPool[k].ratings} : k \in S}]

StoredCatalogs ==
    {CatalogOf(S, "up") :
        S \in {T \in SUBSET (1..Len(RowPool)) : Cardinality(T) <= MaxRows}}
    \cup {CatalogOf(S, "down") :
        S \in {T \in SUBSET (1..Len(RowPool)) :
                  Cardinality(T) >= 2 /\ Cardinality(T) <= MaxRows}}

\* the clock of a request, later than every stored timestamp
Clock == {8, 9}

(* ------------------------------ requests ------------------------------ *)

BookRequest(search, status, rating, seriesKey, sort) ==
    [search |-> search, status |-> status, rating |-> rating,
     seriesKey |-> seriesKey, sort |-> sort]

SeriesRequest(search, rating, completion, sort) ==
    [search |-> search, rating |-> rating, completion |-> completion, sort |-> sort]

SortParams(fields) ==
    {None, Some(<<"title">>), Some(<<"bookCount", "up">>),
     Some(<<"bogus", "desc", "x">>)}
    \cup {Some(<<f, d>>) : f \in fields \cup {"bogus"}, d \in {"asc", "desc"}}

SearchParams ==
    {Some(<<"s">>), Some(<<"S">>), Some(<<" ", "B", " ">>), Some(<<"x">>),
     Some(<<"a">>), Some(<<"k">>), Some(<<"d">>), Some(<<" ">>), Some(<<>>)}

BookRequests ==
    {BookRequest(None, None, None, None, s) :
        s \in SortParams(BOOK_SORT_FIELDS_OF_ROUTE)}
    \cup {BookRequest(q, None, None, None, None) : q \in SearchParams}
    \cup {BookRequest(None, Some(st), None, None, None) :
            st \in {<<"finished">>, <<"finished", "bogus">>, <<"bogus">>,
                    <<"not_started", "in_progress">>}}
    \cup {BookRequest(None, None, Some(r), None, None) :
            r \in {"fullyRated", "unrated", "partlyRated"}}
    \cup {BookRequest(None, None, None, Some(k), None) :
            k \in {STANDALONE_KEY, <<"S">>, <<"s">>, <<"%", "2", "0", "S">>, <<"%">>}}
    \cup {BookRequest(Some(<<"s">>), Some(<<"finished">>), Some(r), None,
                      Some(<<"title", "desc">>)) : r \in {"fullyRated", "unrated"}}
    \cup {BookRequest(Some(<<"s">>), Some(<<"finished">>), Some(r), Some(<<"S">>),
                      Some(<<"title", "desc">>)) : r \in {"fullyRated", "unrated"}}

SeriesRequests ==
    {SeriesRequest(None, None, None, s) :
        s \in SortParams(SERIES_SORT_FIELDS_OF_ROUTE)}
    \cup {SeriesRequest(q, None, None, None) : q \in SearchParams}
    \cup {SeriesRequest(None, Some(r), None, None) :
            r \in {"fullyRated", "partlyRated", "unrated", "bogus"}}
    \cup {SeriesRequest(None, None, Some(c), None) :
            c \in {"not_started", "in_progress", "finished", "bogus"}}
    \cup {SeriesRequest(Some(<<"s">>), Some(r), None, Some(<<"bookCount", "desc">>)) :
            r \in {"partlyRated", "unrated"}}

\* the requests asked twice
RepeatedRequests ==
    {SeriesRequest(None, None, None, None),
     SeriesRequest(Some(<<"s">>), None, None, None),
     SeriesRequest(None, Some("unrated"), None, Some(<<"bookCount", "desc">>))}

(* ---------------------------- initial state --------------------------- *)

\* rows a catalog may hold before the first request
InitRow(id, p, kind) ==
    LET base == InsertValues(ParsedBook(p, 1), id)
    IN CASE kind = "manualFull" ->
              [base EXCEPT !.source = "manual", !.title = Some("M"),
                           !.author = Some("ma"), !.narrator = Some("n1"),
                           !.series = Some("ms"), !.status = "finished",
                           !.book_rating = Some(4), !.tags = Some("t"),
                           !.notes = Some("n")]
         [] kind = "manualEmpty" ->
              [InsertValues(ParsedBook(p, 2), id) EXCEPT
                           !.source = "manual", !.author = Some(""),
                           !.series = Some(""), !.status = "in_progress"]
         [] kind = "csvMissing" ->
              [base EXCEPT !.missing_from_csv = 1, !.book_rating = Some(2),
                           !.cover_image_path = Some(<<"covers", id>>)]
         [] OTHER -> [base EXCEPT !.source = "scanned"]

InitKinds == {"absent", "manualFull", "manualEmpty", "csvMissing"}

InitIds == (P_f :> 1) @@ (P_fa :> 2) @@ (P_g :> 3)

\* last also keeps the two tables as they were when the request arrived
NoRequest ==
    [op |-> "none", input |-> <<>>, env |-> <<>>, response |-> <<>>,
     before |-> {}, beforeRatings |-> {}]

Init ==
    /\ \E k \in [{P_f, P_g} -> InitKinds], ka \in {"absent", "scanned"} :
          LET kind == (P_fa :> ka) @@ k
          IN books = {InitRow(InitIds[p], p, kind[p]) :
                        p \in {q \in DOMAIN kind : kind[q] # "absent"}}
    /\ narrator_ratings =
          {[book_id |-> r.id, narrator_name |-> "n1", rating |-> Some(5)] :
             r \in {x \in books : x.source = "manual"}}
    /\ last = NoRequest
    /\ ops = 0
    /\ tree = IdleTree
    /\ scan = NoScan
    /\ query = NoQuery
    /\ naming = NoName

(* ------------------------------- actions ------------------------------ *)

\* a difference that forgets to take the incoming paths out
MissingPaths_AllExisting(existingPaths, bs) == existingPaths

\* the missing paths: in the table before the import, not in the CSV
MissingPaths(existingPaths, bs) ==
    {q \in existingPaths : q \notin {bs[i].path : i \in 1..Len(bs)}}

ImportSummary(up, mk) ==
    [tbl |-> mk.tbl,
     summary |-> [totalRows |-> up.summary.totalRows,
                  inserted |-> up.summary.inserted,
                  updated |-> up.summary.updated,
                  errors |-> up.summary.errors,
                  markedMissing |-> mk.marked]]

MarkAfter(up, missingPaths) ==
    ImportSummary(up, markMissingBooks(up.tbl, missingPaths))

\* the import of a parsed CSV: upsert, then mark what the CSV no longer names
importCsv(tbl, bs) ==
    MarkAfter(upsertBooks(tbl, bs), MissingPaths(getAllBookPaths(tbl), bs))

ImportDone(bs, r) ==
    /\ books' = r.tbl
    /\ last' = [op |-> "import", input |-> bs, env |-> <<>>,
                response |-> [ok |-> TRUE, summary |-> r.summary],
                before |-> books, beforeRatings |-> narrator_ratings]

CommitDone(bs, env, r) ==
    /\ books' = r.tbl
    /\ last' = [op |-> "commit", input |-> bs, env |-> env, response |-> r.response,
                before |-> books, beforeRatings |-> narrator_ratings]

UpdateDone(id, updates, res) ==
    /\ books' = res.tbl
    /\ last' = [op |-> "updateBook", input |-> <<id, updates>>, env |-> <<>>,
                response |-> [ok |-> res.ok],
                before |-> books, beforeRatings |-> narrator_ratings]

\* POST /api/csv/import
ImportCsv(bs) ==
    /\ ops < MaxOps
    /\ ImportDone(bs, importCsv(books, bs))
    /\ ops' = ops + 1
    /\ UNCHANGED <<scanVars, queryVars, nameVars>>
    /\ UNCHANGED narrator_ratings

\* POST /api/csv/import refused before anything is read or written
ImportRefused(why) ==
    /\ ops < MaxOps
    /\ last' = [op |-> "import", input |-> <<>>, env |-> why,
                response |-> [ok |-> FALSE],
                before |-> books, beforeRatings |-> narrator_ratings]
    /\ ops' = ops + 1
    /\ UNCHANGED <<scanVars, queryVars, nameVars>>
    /\ UNCHANGED <<books, narrator_ratings>>

\* POST /api/files/commit
CommitFiles(bs, env) ==
    /\ ops < MaxOps
    /\ CommitDone(bs, env, commitBooks(books, bs, env))
    /\ ops' = ops + 1
    /\ UNCHANGED <<scanVars, queryVars, nameVars>>
    /\ UNCHANGED narrator_ratings

\* POST /api/files/commit refused by the guards in front of the batch
CommitRefused(why) ==
    /\ ops < MaxOps
    /\ last' = [op |-> "commit", input |-> <<>>, env |-> why,
                response |-> [ok |-> FALSE,
                              httpStatus |-> IF why = "production" THEN 403
                                             ELSE IF why = "unauthenticated" THEN 401
                                             ELSE 400,
                              summary |-> None, results |-> <<>>, calls |-> <<>>],
                before |-> books, beforeRatings |-> narrator_ratings]
    /\ ops' = ops + 1
    /\ UNCHANGED <<scanVars, queryVars, nameVars>>
    /\ UNCHANGED <<books, narrator_ratings>>

\* the user-field update of one book
UpdateBook(id, updates) ==
    /\ ops < MaxOps
    /\ UpdateDone(id, updates, updateBook(books, id, updates))
    /\ ops' = ops + 1
    /\ UNCHANGED <<scanVars, queryVars, nameVars>>
    /\ UNCHANGED narrator_ratings

\* POST /api/books/[id]/narrator-ratings
RateNarrators(id, ratings) ==
    /\ ops < MaxOps
    /\ \E r \in books : r.id = id
    /\ narrator_ratings' = upsertNarratorRatings(narrator_ratings, id, ratings, 1)
    /\ last' = [op |-> "rateNarrators", input |-> <<id, ratings>>, env |-> <<>>,
                response |-> [ok |-> TRUE],
                before |-> books, beforeRatings |-> narrator_ratings]
    /\ ops' = ops + 1
    /\ UNCHANGED <<scanVars, queryVars, nameVars>>
    /\ UNCHANGED books

Next ==
    \/ \E bs \in CsvFiles : ImportCsv(bs)
    \/ \E why \in {"unauthenticated", "parse_failed"} : ImportRefused(why)
    \/ \E bs \in CommitBatches : \E env \in CommitEnvs(bs) : CommitFiles(bs, env)
    \/ \E why \in {"production", "empty"} : CommitRefused(why)
    \/ \E r \in books : \E u \in UpdateInputs : UpdateBook(r.id, u)
    \/ \E r \in books : \E rs \in RatingInputs : RateNarrators(r.id, rs)

Spec == Init /\ [][Next]_vars

(* ---------------------------- the scan alone -------------------------- *)

InitScan ==
    /\ books = {}
    /\ narrator_ratings = {}
    /\ last = NoRequest
    /\ ops = 0
    /\ tree \in Trees
    /\ scan = NoScan
    /\ query = NoQuery
    /\ naming = NoName

\* POST /api/files/scan on a folder that is there
ScanFolder(rootPath, opts, env) ==
    /\ scan.n < MaxScans
    /\ PathKind(tree, rootPath) = "dir"
    /\ scan' = [n |-> scan.n + 1, root |-> rootPath, options |-> opts, env |-> env,
                response |-> scanFolder(tree, rootPath, opts, env)]
    /\ UNCHANGED <<tree, catalogVars, queryVars, nameVars>>

\* POST /api/files/scan on a path that is missing or is a file: scanFolder throws
ScanInvalidRoot(rootPath) ==
    /\ scan.n < MaxScans
    /\ PathKind(tree, rootPath) # "dir"
    /\ scan' = [n |-> scan.n + 1, root |-> rootPath, options |-> <<>>, env |-> <<>>,
                response |-> scanFolder(tree, rootPath,
                                        [recursive |-> TRUE,
                                         maxDepth |-> DefaultMaxDepth],
                                        EnvOf({}))]
    /\ UNCHANGED <<tree, catalogVars, queryVars, nameVars>>

NextScan ==
    \/ \E opts \in ScanOptions : \E env \in ScanEnvs(tree) :
          ScanFolder(D_lib, opts, env)
    \/ \E rootPath \in {<<"nope">>, Join(D_lib, "1.m4b"), D_A1} :
          ScanInvalidRoot(rootPath)

SpecScan == InitScan /\ [][NextScan]_vars

(* --------------------------- the queries alone ------------------------ *)

InitQuery ==
    /\ \E c \in StoredCatalogs : books = c.books /\ narrator_ratings = c.ratings
    /\ last = NoRequest
    /\ ops = 0
    /\ tree = IdleTree
    /\ scan = NoScan
    /\ query = NoQuery
    /\ naming = NoName

Asked(op, request, now, response) ==
    [n |-> query.n + 1, op |-> op, input |-> request, now |-> now,
     response |-> response,
     previous |-> [op |-> query.op, input |-> query.input,
                   response |-> query.response]]

\* GET /api/books
QueryBooks(request, now) ==
    /\ query' = Asked("books", request, now,
                      GetBooks(books, narrator_ratings, request, now))
    /\ UNCHANGED <<catalogVars, scanVars, nameVars>>

\* GET /api/series
QuerySeries(request, now) ==
    /\ query' = Asked("series", request, now,
                      GetSeries(books, narrator_ratings, request, now))
    /\ UNCHANGED <<catalogVars, scanVars, nameVars>>

NextQuery ==
    /\ query.n < MaxQueries
    /\ \/ \E request \in BookRequests : \E now \in Clock : QueryBooks(request, now)
       \/ \E request \in SeriesRequests : \E now \in Clock : QuerySeries(request, now)

SpecQuery == InitQuery /\ [][NextQuery]_vars

\* the series list asked for, and asked for again later
NextRepeat ==
    /\ query.n < MaxRepeats
    /\ \E request \in RepeatedRequests : \E now \in Clock :
          now > query.now /\ QuerySeries(request, now)

SpecRepeat == InitQuery /\ [][NextRepeat]_vars

(* ----------------------------- the names alone ------------------------ *)

InitName ==
    /\ books = {}
    /\ narrator_ratings = {}
    /\ last = NoRequest
    /\ ops = 0
    /\ tree = IdleTree
    /\ scan = NoScan
    /\ query = NoQuery
    /\ \E x \in Names : naming = [n |-> 0, name |-> x.name, form |-> x.form,
                                  result |-> <<>>]

\* the scanner reads the name of a folder or of a file
ParseName ==
    /\ naming.n < MaxParses
    /\ naming' = [naming EXCEPT !.n = @ + 1,
                                !.result = parseSeriesFromName(naming.name)]
    /\ UNCHANGED <<catalogVars, scanVars, queryVars>>

NextName == ParseName

SpecName == InitName /\ [][NextName]_vars

(* ------------------------- reading a request back --------------------- *)

IsIngestion == last.op \in {"import", "commit"} /\ last.response.ok

\* the candidates handed to the upsert by the last ingestion, in order, each as
\* the cells it carries for the ten descriptive columns both ingestions write
CellsOfParsed(b) ==
    [path |-> b.path, type |-> Some(b.type), title |-> Some(b.title),
     author |-> b.author, narrator |-> b.narrator,
     duration_seconds |-> b.duration_seconds,
     has_embedded_cover |-> BoolToInt(b.has_embedded_cover),
     total_size_bytes |-> b.total_size_bytes, file_count |-> b.file_count,
     series |-> b.series, series_book_number |-> b.series_book_number]

CellsOfCandidate(c) ==
    [path |-> c.path, type |-> Some(c.type), title |-> Some(c.title),
     author |-> c.author, narrator |-> c.narrator,
     duration_seconds |-> c.durationSeconds,
     has_embedded_cover |-> BoolToInt(Some(c.hasEmbeddedCover)),
     total_size_bytes |-> c.totalSizeBytes, file_count |-> c.fileCount,
     series |-> c.series, series_book_number |-> c.seriesBookNumber]

Incoming ==
    IF last.op = "import" /\ last.response.ok
    THEN [i \in 1..Len(last.input) |-> CellsOfParsed(last.input[i])]
    ELSE IF last.op = "commit" /\ last.response.ok
    THEN [i \in 1..Len(last.response.calls) |-> CellsOfCandidate(last.response.calls[i])]
    ELSE <<>>

IncomingPaths == {Incoming[i].path : i \in 1..Len(Incoming)}

LastIncoming(p) ==
    Incoming[CHOOSE i \in 1..Len(Incoming) :
                /\ Incoming[i].path = p
                /\ \A j \in (i + 1)..Len(Incoming) : Incoming[j].path # p]

PathsOf(tbl) == {r.path : r \in tbl}

RowAt(tbl, p) == CHOOSE r \in tbl : r.path = p

TextColumns == {"title", "author", "narrator", "series"}

OtherColumns ==
    {"type", "duration_seconds", "has_embedded_cover", "total_size_bytes",
     "file_count", "is_duplicate", "series_book_number", "series_ended",
     "series_name_raw", "series_exact_name_raw"}

WrittenColumns ==
    {"type", "title", "author", "narrator", "duration_seconds",
     "has_embedded_cover", "total_size_bytes", "file_count", "series",
     "series_book_number"}

UserColumns == {"status", "book_rating", "tags", "notes"}

(* ------------------------------- claims ------------------------------- *)

\* C1: a commit batch holding a candidate with multipleM4bFiles set and no
\* userDecision is answered with an error and writes nothing: the books table is
\* as it was and no upsert was called, also for the other candidates of the batch.
C1_PendingBatchWritesNothing ==
    (last.op = "commit"
        /\ \E i \in 1..Len(last.input) : PendingDecision(last.input[i]))
    => /\ last.response.ok = FALSE
       /\ last.response.calls = <<>>
       /\ books = last.before

C1_Witness ==
    /\ last.op = "commit"
    /\ Len(last.input) = 2
    /\ PendingDecision(last.input[2])
    /\ ~PendingDecision(last.input[1])
    /\ last.input[1].path \notin PathsOf(last.before)
    /\ last.response.httpStatus = 400

\* C2: re-ingesting a path whose row has source 'manual' leaves every non-empty
\* title, author, narrator and series and every non-null other descriptive column
\* as stored, whatever the candidate carries, and the source stays 'manual'.
C2_ManualRowKeepsEnteredValues ==
    IsIngestion =>
        \A r \in last.before :
            (r.source = "manual" /\ r.path \in IncomingPaths) =>
                \E n \in books :
                    /\ n.id = r.id /\ n.path = r.path
                    /\ n.source = "manual"
                    /\ \A f \in TextColumns :
                          (r[f] # None /\ r[f] # Some("")) => n[f] = r[f]
                    /\ \A f \in OtherColumns : r[f] # None => n[f] = r[f]
                    /\ \A f \in TextColumns \cup OtherColumns :
                          n[f] # r[f] => (r[f] = None \/ r[f] = Some(""))

C2_Witness ==
    /\ IsIngestion
    /\ \E r \in last.before :
          /\ r.source = "manual" /\ r.path \in IncomingPaths
          /\ r.author # None /\ r.author # Some("")
          /\ LastIncoming(r.path).author # None
          /\ LastIncoming(r.path).author # r.author
    /\ \E r \in last.before :
          /\ r.source = "manual" /\ r.path \in IncomingPaths
          /\ r.author = Some("")
          /\ RowAt(books, r.path).author # Some("")

\* C3: a commit or a bulk re-ingestion leaves status, book_rating, tags and notes
\* of every row that existed, and the whole narrator_ratings table, unchanged.
C3_IngestionKeepsUserFields ==
    IsIngestion =>
        /\ \A r \in last.before :
              \E n \in books :
                  n.id = r.id /\ \A f \in UserColumns : n[f] = r[f]
        /\ narrator_ratings = last.beforeRatings

C3_Witness ==
    /\ IsIngestion
    /\ \E r \in last.before :
          /\ r.path \in IncomingPaths
          /\ r.source # "manual"
          /\ r.status = "finished" /\ r.book_rating = Some(5)
          /\ RowAt(books, r.path).title # r.title
    /\ \E r \in last.before : r.path \notin IncomingPaths
    /\ narrator_ratings # {}

\* C4: after a bulk re-ingestion with incoming path set P, a row that existed
\* before is flagged missing iff its path is not in P, every row with a path in P
\* is unflagged, and the flagged rows are exactly the earlier paths outside P,
\* whose number is returned as markedMissing.
C4_MissingFlagFollowsIncomingSet ==
    (last.op = "import" /\ last.response.ok) =>
        /\ \A n \in books :
              /\ n.path \in PathsOf(last.before) =>
                    (n.missing_from_csv = 1 <=> n.path \notin IncomingPaths)
              /\ n.path \in IncomingPaths => n.missing_from_csv = 0
        /\ IncomingPaths \subseteq PathsOf(books)
        /\ {n.path : n \in {x \in books : x.missing_from_csv = 1}}
              = PathsOf(last.before) \ IncomingPaths
        /\ last.response.summary.markedMissing
              = Cardinality(PathsOf(last.before) \ IncomingPaths)

C4_Witness ==
    /\ last.op = "import" /\ last.response.ok
    /\ \E r \in last.before :
          r.missing_from_csv = 1 /\ r.path \in IncomingPaths
    /\ \E r \in last.before :
          r.missing_from_csv = 0 /\ r.path \notin IncomingPaths
    /\ \E p \in IncomingPaths : p \notin PathsOf(last.before)
    /\ last.response.summary.markedMissing = 2

\* C5: the table never holds two rows with one path or one id; an ingestion keeps
\* the id and the path of every row that existed; an upsert of a path that has a
\* row (from before, or from earlier in the same batch) is counted as an update,
\* the others as inserts, and only the inserts add rows.
EarlierOrBefore(i) ==
    \/ Incoming[i].path \in PathsOf(last.before)
    \/ \E j \in 1..(i - 1) : Incoming[j].path = Incoming[i].path

Counts ==
    IF last.op = "import" THEN last.response.summary ELSE last.response.summary[1]

C5_OneRowPerPath ==
    /\ \A r, n \in books : (r.path = n.path \/ r.id = n.id) => r = n
    /\ IsIngestion =>
          /\ \A r \in last.before : \E n \in books : n.id = r.id /\ n.path = r.path
          /\ Counts.updated = Cardinality({i \in 1..Len(Incoming) : EarlierOrBefore(i)})
          /\ Counts.inserted = Cardinality({i \in 1..Len(Incoming) : ~EarlierOrBefore(i)})
          /\ Cardinality(books) = Cardinality(last.before) + Counts.inserted

C5_Witness ==
    /\ IsIngestion
    /\ ops = 2
    /\ Len(Incoming) = 2
    /\ Incoming[1].path = Incoming[2].path
    /\ Incoming[1].path \in PathsOf(last.before)
    /\ Counts.updated = 2

\* C6: a commit or a bulk re-ingestion removes no row: every path of the table
\* before is a path of the table after, also the paths the incoming set lacks.
C6_IngestionRemovesNothing ==
    IsIngestion => PathsOf(last.before) \subseteq PathsOf(books)

C6_Witness ==
    /\ last.op = "import" /\ last.response.ok
    /\ \E r \in last.before :
          /\ r.path \notin IncomingPaths
          /\ RowAt(books, r.path).missing_from_csv = 1
    /\ Cardinality(books) > Cardinality(last.before)

\* C7: re-ingesting a path whose row is not 'manual' leaves type, title, author,
\* narrator, duration, cover flag, size, file count, series and series position
\* equal to what the last incoming candidate for that path carries.
C7_FullMergeTakesIncoming ==
    IsIngestion =>
        \A r \in last.before :
            (r.source # "manual" /\ r.path \in IncomingPaths) =>
                \A f \in WrittenColumns :
                    RowAt(books, r.path)[f] = LastIncoming(r.path)[f]

C7_Witness ==
    /\ IsIngestion
    /\ \E r \in last.before :
          /\ r.source # "manual" /\ r.path \in IncomingPaths
          /\ r.author # None
          /\ LastIncoming(r.path).author = None
          /\ RowAt(books, r.path).author = None
    /\ \E r \in last.before :
          /\ r.source # "manual" /\ r.path \in IncomingPaths
          /\ r.title # LastIncoming(r.path).title
          /\ LastIncoming(r.path).author # None

\* C8: a folder candidate committed with the decision 'multiple', when none of
\* its part files fails, is written as one upsert per m4bFilePaths entry, keyed by
\* that file's path: the table then holds exactly one row per part, and no upsert
\* of the item names the folder's own path.
ItemCalls(i) ==
    LET from == IF i = 1 THEN 0 ELSE last.response.results[i - 1].upto
    IN [k \in 1..(last.response.results[i].upto - from) |->
            last.response.calls[from + k].path]

IsMultiple(b) == b.multipleM4bFiles /\ b.userDecision = Some("multiple")

C8_MultipleWritesOneRowPerPart ==
    (last.op = "commit" /\ last.response.ok) =>
        \A i \in 1..Len(last.input) :
            (IsMultiple(last.input[i]) /\ last.response.results[i].status # "error") =>
                /\ ItemCalls(i) = last.input[i].m4bFilePaths[1]
                /\ last.input[i].path \notin Range(ItemCalls(i))
                /\ Cardinality({r \in books :
                                  r.path \in Range(last.input[i].m4bFilePaths[1])})
                      = Len(last.input[i].m4bFilePaths[1])
                /\ last.response.results[i].status = "inserted"

C8_Witness ==
    /\ last.op = "commit" /\ last.response.ok
    /\ Len(last.input) = 1
    /\ IsMultiple(last.input[1])
    /\ last.response.results[1].status = "inserted"
    /\ PathsOf(last.before) \cap {P_f, P_fa, P_fb} = {P_fa}
    /\ PathsOf(books) \cap {P_f, P_fa, P_fb} = {P_fa, P_fb}
    /\ Counts.inserted = 1 /\ Counts.updated = 1

(* --------------------------- reading a scan back ---------------------- *)

Scanned == scan.n > 0 /\ scan.options # <<>>

FileNamesIn(d) ==
    {tree[d][i].name : i \in {k \in 1..Len(tree[d]) : tree[d][k].kind = "file"}}

\* the files of a directory by what they are on disk, whatever the scanner reads
M4bIn(d) == FileNamesIn(d) \cap {"1.m4b", "2.M4B"}
AudioIn(d) == FileNamesIn(d) \cap {"1.m4b", "2.M4B", "t.mp3"}

IsLeaf(d) == \A i \in 1..Len(tree[d]) : tree[d][i].kind # "dir"

Walked == Range(scan.response.walked)

ReadsFine(d) ==
    /\ d \notin scan.env.walkFail \cup scan.env.contentFail
    /\ \A n \in FileNamesIn(d) : Join(d, n) \notin scan.env.statFail

CandidatesAt(p) ==
    {i \in 1..Len(scan.response.candidates) : scan.response.candidates[i].path = p}

AmbiguousFor(c, d) ==
    /\ c.type = "Folder"
    /\ c.multipleM4bFiles
    /\ c.userDecision = None
    /\ c.m4bFilePaths # None
    /\ Range(c.m4bFilePaths[1]) = {Join(d, n) : n \in M4bIn(d)}
    /\ Len(c.m4bFilePaths[1]) = Cardinality(M4bIn(d))
    /\ c.m4bFileCount = Some(Cardinality(M4bIn(d)))
    /\ c.fileCount = Some(Cardinality(AudioIn(d)))
    /\ <<"Multiple .m4b files", Cardinality(M4bIn(d)), "user decision required">>
          \in Range(c.warnings)

\* C9: a walked leaf folder with two or more .m4b files, when its reads succeed,
\* yields exactly one candidate: a Folder for the folder itself with the flag
\* multipleM4bFiles set, no userDecision, m4bFilePaths exactly its .m4b files,
\* m4bFileCount their number, fileCount the number of all its audio files and the
\* warning that a decision is required; a Folder candidate of a folder with
\* fewer than two .m4b files carries no flag and no part list.
C9_SeveralM4bGiveOneAmbiguousCandidate ==
    Scanned =>
        /\ \A d \in Walked :
              (IsLeaf(d) /\ ReadsFine(d) /\ Cardinality(M4bIn(d)) >= 2) =>
                  /\ Cardinality(CandidatesAt(d)) = 1
                  /\ \A i \in CandidatesAt(d) :
                        AmbiguousFor(scan.response.candidates[i], d)
                  /\ \A n \in FileNamesIn(d) : CandidatesAt(Join(d, n)) = {}
        /\ \A i \in 1..Len(scan.response.candidates) :
              (/\ scan.response.candidates[i].type = "Folder"
               /\ Cardinality(M4bIn(scan.response.candidates[i].path)) < 2)
              => /\ ~scan.response.candidates[i].multipleM4bFiles
                 /\ scan.response.candidates[i].m4bFilePaths = None

C9_Witness ==
    /\ Scanned
    /\ D_B \in Walked /\ ReadsFine(D_B)
    /\ FileNamesIn(D_B) = {"1.m4b", "2.M4B", "t.mp3", "n.txt"}
    /\ \E i \in CandidatesAt(D_B) :
          /\ scan.response.candidates[i].multipleM4bFiles
          /\ scan.response.candidates[i].fileCount = Some(3)
          /\ scan.response.candidates[i].m4bFileCount = Some(2)
    /\ \E i \in CandidatesAt(D_A) :
          /\ FileNamesIn(D_A) = {"1.m4b", "t.mp3"}
          /\ ~scan.response.candidates[i].multipleM4bFiles

\* the reads of a directory that were attempted during the scan and threw
WalkReadFailed(d) == d \in scan.env.walkFail /\ d \in Walked

ContentReadFailed(d) ==
    /\ d \in scan.env.contentFail /\ d \in Walked /\ d \notin scan.env.walkFail
    /\ (IsLeaf(d) \/ ~scan.options.recursive)
    /\ AudioIn(d) # {}

IsPrefix(p, q) == Len(p) <= Len(q) /\ SubSeq(q, 1, Len(p)) = p

\* the same scan with the reads of d succeeding
WithoutFailureOf(d) ==
    scanFolder(tree, scan.root, scan.options,
               [scan.env EXCEPT !.walkFail = @ \ {d}, !.contentFail = @ \ {d}])

OthersUnaffected(d, baseline) ==
    /\ \A e \in Range(baseline.walked) : ~IsPrefix(d, e) => e \in Walked
    /\ \A c \in Range(baseline.candidates) :
          ~IsPrefix(d, c.path) => c \in Range(scan.response.candidates)

\* C10: when a read of a directory fails during a scan, the scan still returns,
\* its warnings name that directory, and every directory outside it is walked and
\* yields the candidates it yields when the read succeeds.
C10_FailedReadIsWarnedAndSkipped ==
    Scanned =>
        /\ scan.response.ok
        /\ \A d \in DOMAIN tree :
              (WalkReadFailed(d) \/ ContentReadFailed(d)) =>
                  /\ <<"Error scanning", d>> \in Range(scan.response.warnings)
                  /\ OthersUnaffected(d, WithoutFailureOf(d))

(* ------------------------------ depth limit --------------------------- *)

\* the depth of a directory below the root of the scan, the root being at 0
DepthOf(d) == Len(d) - Len(scan.root)

ParentOf(d) == SubSeq(d, 1, Len(d) - 1)

TooDeep(d) == IsPrefix(scan.root, d) /\ DepthOf(d) > scan.options.maxDepth

\* the walker arrives at d: it read the parent of d and descends from it
Reached(d) ==
    /\ DepthOf(d) > 0
    /\ ParentOf(d) \in Walked
    /\ ParentOf(d) \notin scan.env.walkFail
    /\ scan.options.recursive

DepthWarnings(d) ==
    {i \in 1..Len(scan.response.warnings) :
        scan.response.warnings[i] = <<"Max depth reached at", d>>}

\* C11: with the root at depth 0, a scan succeeds whatever lies below maxDepth;
\* no candidate has its path at or inside a directory deeper than maxDepth, such
\* a directory is never among the counted folders, scannedFolders counts the
\* walked folders only, and each such directory the walker reaches has exactly
\* one depth warning (none when it is not reached).
C11_DepthLimitStopsDescent ==
    Scanned =>
        /\ scan.response.ok
        /\ scan.response.scannedFolders = Len(scan.response.walked)
        /\ \A d \in DOMAIN tree :
              TooDeep(d) =>
                  /\ \A i \in 1..Len(scan.response.candidates) :
                        ~IsPrefix(d, scan.response.candidates[i].path)
                  /\ d \notin Walked
                  /\ Cardinality(DepthWarnings(d)) = IF Reached(d) THEN 1 ELSE 0

\* a folder with audio below the limit is reached, warned about and left out,
\* while the folders above it are counted
C11_Witness ==
    /\ Scanned
    /\ scan.options.maxDepth = 1
    /\ D_A1 \in DOMAIN tree
    /\ AudioIn(D_A1) # {}
    /\ Reached(D_A1)
    /\ Cardinality(DepthWarnings(D_A1)) = 1
    /\ scan.response.scannedFolders = 3
    /\ scan.response.candidates # <<>>

(* --------------------------- folder duration -------------------------- *)

\* the duration the scan reads from an audio file, 0 when it reads none
ReadDuration(p) == DurationOrZero(extractFileMetadata(p, scan.env))

RECURSIVE SumRead(_)
SumRead(paths) ==
    IF paths = {} THEN 0
    ELSE ReadDuration(CHOOSE p \in paths : TRUE)
            + SumRead(paths \ {CHOOSE p \in paths : TRUE})

SoleM4b(d) == Join(d, CHOOSE n \in M4bIn(d) : TRUE)

\* the duration a folder with one .m4b file is to show: the file's own, and the
\* sum over the audio files of the folder when the file's own is not read
ExpectedDuration(d) ==
    IF extractFileMetadata(SoleM4b(d), scan.env).durationSeconds # None
    THEN {extractFileMetadata(SoleM4b(d), scan.env).durationSeconds}
    ELSE {NonZero(SumRead(AudioPathsIn(tree, d)))}

\* C20: a Folder candidate of a walked folder with exactly one .m4b file, when
\* the reads of the folder succeed, has as durationSeconds the extracted
\* duration of that file, and the sum of the durations of all audio files of
\* the folder when the duration of that file could not be read.
C20_SoleM4bDurationOrSum ==
    Scanned =>
        \A d \in Walked :
            (Cardinality(M4bIn(d)) = 1 /\ ReadsFine(d)) =>
                \A i \in CandidatesAt(d) :
                    scan.response.candidates[i].type = "Folder" =>
                        scan.response.candidates[i].durationSeconds
                            \in ExpectedDuration(d)

(* -------------------------- reading a query back ---------------------- *)

Queried(op) == query.n > 0 /\ query.op = op

\* a book request that only filters by rating completeness
OnlyRating(request, rating) ==
    /\ request.rating = Some(rating)
    /\ request.search = None /\ request.status = None /\ request.seriesKey = None

ReturnedBookIds == {query.response.books[i].id : i \in 1..Len(query.response.books)}

\* the stretches of a text between its commas, as pairs of indices
TokenBounds(s) ==
    {<<i, j>> \in (1..(Len(s) + 1)) \X (0..Len(s)) :
        /\ j >= i - 1
        /\ (i = 1 \/ s[i - 1] = ",")
        /\ (j = Len(s) \/ s[j + 1] = ",")
        /\ \A k \in i..j : s[k] # ","}

\* what is left of s[i..j] without the spaces around it, if anything is
TokenCore(s, i, j) ==
    {SubSeq(s, a, b) : <<a, b>> \in
        {<<a, b>> \in (i..j) \X (i..j) :
            /\ a <= b /\ s[a] # " " /\ s[b] # " "
            /\ \A k \in i..(a - 1) : s[k] = " "
            /\ \A k \in (b + 1)..j : s[k] = " "}}

NarratorNames(cell) ==
    IF cell = None THEN {}
    ELSE UNION {TokenCore(cell[1], t[1], t[2]) : t \in TokenBounds(cell[1])}

RatedNarrator(row, n) ==
    \E r \in narrator_ratings :
        r.book_id = row.id /\ r.narrator_name = n /\ r.rating # None

FullyRated(row) ==
    /\ row.book_rating # None
    /\ \A n \in NarratorNames(row.narrator) : RatedNarrator(row, n)

\* C12: the book list filtered by "fullyRated" holds exactly the records with a
\* book rating whose every narrator (the narrator field split on commas, trimmed,
\* empty tokens dropped) has a non-null rating stored for the record, a narrator
\* without a stored rating counting as unrated; filtered by "unrated" it holds
\* exactly the other records. A record without narrators is fully rated iff it
\* has a book rating.
C12_FullyRatedIffBookAndNarratorsRated ==
    Queried("books") =>
        /\ OnlyRating(query.input, "fullyRated") =>
              ReturnedBookIds = {r.id : r \in {x \in books : FullyRated(x)}}
        /\ OnlyRating(query.input, "unrated") =>
              ReturnedBookIds = {r.id : r \in {x \in books : ~FullyRated(x)}}

\* a book request without filters, sorted as given
OnlySort(request, field, direction) ==
    /\ request.sort = Some(<<field, direction>>)
    /\ request.search = None /\ request.status = None
    /\ request.rating = None /\ request.seriesKey = None

Returned(i) == query.response.books[i]

\* the stored positions that read as numbers, with their values in hundredths
PositionValues ==
    (Some(<<"1">>) :> 100) @@ (Some(<<"1", ".", "5">>) :> 150)
    @@ (Some(<<"2">>) :> 200) @@ (Some(<<"2", "x">>) :> 200)
    @@ (Some(<<" ", "2">>) :> 200) @@ (Some(<<"1", "0">>) :> 1000)

HasPosition(b) == b.series_book_number \in DOMAIN PositionValues
PositionOf(b) == PositionValues[b.series_book_number]

\* C13: in the book list sorted by series position, ascending or descending,
\* no record whose position is absent or unparsable comes before a record with
\* a parsable position, and the parsable positions are in ascending resp.
\* descending numeric order.
C13_UnknownPositionsLast ==
    Queried("books") =>
        \A d \in {"asc", "desc"} :
            OnlySort(query.input, "series_book_number", d) =>
                \A i, j \in 1..Len(query.response.books) :
                    i < j =>
                        /\ ~(~HasPosition(Returned(i)) /\ HasPosition(Returned(j)))
                        /\ (HasPosition(Returned(i)) /\ HasPosition(Returned(j))) =>
                              IF d = "asc"
                              THEN PositionOf(Returned(i)) <= PositionOf(Returned(j))
                              ELSE PositionOf(Returned(i)) >= PositionOf(Returned(j))

\* C14: in the book list sorted by book rating, ascending or descending, no
\* record with a null rating comes before a record with a rating, and the
\* ratings are in ascending resp. descending order.
C14_NullRatingsLast ==
    Queried("books") =>
        \A d \in {"asc", "desc"} :
            OnlySort(query.input, "book_rating", d) =>
                \A i, j \in 1..Len(query.response.books) :
                    i < j =>
                        /\ ~(Returned(i).book_rating = None
                               /\ Returned(j).book_rating # None)
                        /\ (Returned(i).book_rating # None
                               /\ Returned(j).book_rating # None) =>
                              IF d = "asc"
                              THEN Returned(i).book_rating[1] <= Returned(j).book_rating[1]
                              ELSE Returned(i).book_rating[1] >= Returned(j).book_rating[1]

\* three records, the one stored first without a rating, sorted descending: the
\* two ratings differ and the record without one is returned last
C14_Witness ==
    /\ Queried("books")
    /\ OnlySort(query.input, "book_rating", "desc")
    /\ Len(query.response.books) = 3
    /\ Returned(1).book_rating # None
    /\ Returned(2).book_rating # None
    /\ Returned(1).book_rating[1] > Returned(2).book_rating[1]
    /\ Returned(3).book_rating = None
    /\ Returned(3).id = 1

TitleOrder(i, j) ==
    localeCompare(toLowerCase(Returned(i).title), toLowerCase(Returned(j).title))

UnknownSortField(request) ==
    /\ request.sort # None
    /\ request.sort[1] # <<>>
    /\ request.sort[1][1] \notin ALLOWED_BOOK_SORT_FIELDS

\* C15: a book request whose sort field is not one of the sortable fields is
\* answered without an error, whatever direction it asks for, and its answer is
\* the answer to the same request sorted by title ascending: the titles, lower
\* case, never decrease along it.
C15_UnknownSortFieldGivesTitleAscending ==
    (Queried("books") /\ UnknownSortField(query.input)) =>
        /\ query.response.ok
        /\ \A i, j \in 1..Len(query.response.books) : i < j => TitleOrder(i, j) <= 0
        /\ query.response =
              GetBooks(books, narrator_ratings,
                       [query.input EXCEPT !.sort = Some(<<"title", "asc">>)],
                       query.now)

\* a request for "bogus" descending on three records with three titles, the
\* first of the answer not being the record stored first
C15_Witness ==
    /\ Queried("books")
    /\ query.input.sort = Some(<<"bogus", "desc">>)
    /\ query.response.ok
    /\ Len(query.response.books) = 3
    /\ TitleOrder(1, 2) < 0
    /\ TitleOrder(2, 3) < 0
    /\ Returned(1).id # 1

\* a series request without search and filters, whatever its sort
Unfiltered(request) ==
    request.search = None /\ request.rating = None /\ request.completion = None

Groups == query.response.series

GroupsOf(id) ==
    {<<g, k>> \in (1..Len(Groups)) \X (1..MaxRows) :
        k <= Len(Groups[g].memberIds) /\ Groups[g].memberIds[k] = id}

GroupOf(id) == CHOOSE g \in 1..Len(Groups) : id \in Range(Groups[g].memberIds)

\* null, empty or white space only
Blank(series) == series = None \/ \A i \in 1..Len(series[1]) : series[1][i] = " "

\* C16: the groups of the series list partition the records. Every record is a
\* member of exactly one group; two records with a non-blank series are in the
\* same group iff their series texts are equal as stored (case and spaces
\* included); the records with a null, empty or white-space series are the
\* members of one group keyed "standalone" and named "Standalone Books".
C16_GroupsPartitionByExactSeries ==
    (Queried("series") /\ Unfiltered(query.input)) =>
        /\ \A r \in books : Cardinality(GroupsOf(r.id)) = 1
        /\ \A r, s \in books :
              (~Blank(r.series) /\ ~Blank(s.series)) =>
                  (GroupOf(r.id) = GroupOf(s.id) <=> r.series = s.series)
        /\ \A r \in books :
              Blank(r.series) <=>
                  /\ Groups[GroupOf(r.id)].seriesKey = STANDALONE_KEY
                  /\ Groups[GroupOf(r.id)].seriesName = STANDALONE_NAME

\* a series request that only searches, for a term that is not blank
OnlySearch(request) ==
    /\ request.search # None
    /\ Trim(request.search[1]) # <<>>
    /\ request.rating = None /\ request.completion = None

SearchTerm == toLowerCase(Trim(query.input.search[1]))

\* the groups of the catalog: the answer to the same request without its search
AllGroups ==
    GetSeries(books, narrator_ratings, [query.input EXCEPT !.search = None],
              query.now).series

IsReturned(group) ==
    \E g \in 1..Len(Groups) :
        Groups[g].seriesKey = group.seriesKey /\ Groups[g].memberIds = group.memberIds

CellContains(cell, term) == cell # None /\ includes(toLowerCase(cell[1]), term)

\* the book-level search: the term is in the title, author, series or narrator
RowMatches(row, term) ==
    \/ CellContains(row.title, term)
    \/ CellContains(row.author, term)
    \/ CellContains(row.series, term)
    \/ CellContains(row.narrator, term)

MemberMatches(group, term) ==
    \E r \in books : r.id \in Range(group.memberIds) /\ RowMatches(r, term)

\* C17: with a search term, the series list holds a group of the catalog iff the
\* name of the group contains the term, case ignored, or a member of the group
\* matches the book-level search; this for every group, "Standalone Books"
\* included.
C17_GroupShownIffNameOrMemberMatches ==
    (Queried("series") /\ OnlySearch(query.input)) =>
        \A g \in 1..Len(AllGroups) :
            IsReturned(AllGroups[g]) <=>
                \/ includes(toLowerCase(AllGroups[g].seriesName), SearchTerm)
                \/ MemberMatches(AllGroups[g], SearchTerm)

MembersOf(group) == {r \in books : r.id \in Range(group.memberIds)}

HasCover(row) == row.cover_image_path # None

\* the date a record was added as the answer shows it: the time of the request
\* when none is stored
DateAdded(row) == IF row.date_added = None THEN query.now ELSE row.date_added[1]

KnownPosition(row) == row.series_book_number \in DOMAIN PositionValues

\* r comes before s by series position, an unknown position being last
PositionBefore(r, s) ==
    /\ KnownPosition(r)
    /\ KnownPosition(s) =>
          PositionValues[r.series_book_number] < PositionValues[s.series_book_number]

SamePosition(r, s) == ~PositionBefore(r, s) /\ ~PositionBefore(s, r)

\* r comes before s in the order the cover of the group is taken by
CoverBefore(group, r, s) ==
    IF group.seriesKey = STANDALONE_KEY /\ group.seriesName = STANDALONE_NAME
    THEN DateAdded(r) < DateAdded(s)
    ELSE \/ PositionBefore(r, s)
         \/ SamePosition(r, s) /\ DateAdded(r) < DateAdded(s)

\* C18: the cover of a group is the id of the first member with a cover path
\* when the members are ordered by series position (numeric, absent or
\* unparsable last) and then by date added (the standalone group by date added
\* only): a member with a cover path that no other member with a cover path
\* comes before. It is null iff no member of the group has a cover path.
C18_CoverIsFirstMemberWithCover ==
    Queried("series") =>
        \A g \in 1..Len(Groups) :
            /\ Groups[g].coverBookId = None <=>
                  \A r \in MembersOf(Groups[g]) : ~HasCover(r)
            /\ Groups[g].coverBookId # None =>
                  \E r \in MembersOf(Groups[g]) :
                      /\ r.id = Groups[g].coverBookId[1]
                      /\ HasCover(r)
                      /\ \A s \in MembersOf(Groups[g]) :
                            HasCover(s) => ~CoverBefore(Groups[g], s, r)

\* a series of three: the member first by position has no cover, the cover is
\* of the next one, and a member without a position has a cover and was added
\* before it
C18_Witness ==
    /\ Queried("series")
    /\ \E g \in 1..Len(Groups) :
          /\ Groups[g].seriesKey # STANDALONE_KEY
          /\ Len(Groups[g].memberIds) = 3
          /\ Groups[g].coverBookId # None
          /\ \E r, s, t \in MembersOf(Groups[g]) :
                /\ r.id = Groups[g].coverBookId[1]
                /\ ~HasCover(s) /\ PositionBefore(s, r)
                /\ HasCover(t) /\ ~KnownPosition(t) /\ DateAdded(t) < DateAdded(r)

\* C19: the series list asked twice with the same parameters, the catalog being
\* the same, gives the same answer both times: the same groups in the same
\* order, every field equal, the cover id and the timestamp of the cover
\* included, whatever dates the records store, null dates included.
C19_SeriesListRepeats ==
    (Queried("series") /\ query.previous.op = "series"
        /\ query.previous.input = query.input) =>
        query.response = query.previous.response

(* --------------------------- leaves and containers -------------------- *)

SubdirsOf(d) ==
    {Join(d, tree[d][i].name) : i \in {k \in 1..Len(tree[d]) : tree[d][k].kind = "dir"}}

TypesAt(p) == {scan.response.candidates[i].type : i \in CandidatesAt(p)}

\* each .m4b file lying directly in d has one candidate, a SingleFile
OneSingleFilePerM4b(d) ==
    \A n \in M4bIn(d) :
        /\ Cardinality(CandidatesAt(Join(d, n))) = 1
        /\ TypesAt(Join(d, n)) = {"SingleFile"}

\* C24: a walked directory without subdirectories whose audio files are all
\* .m4b files, when its reads succeed, yields one SingleFile candidate per .m4b
\* file and no Folder candidate for the directory.
C24_M4bOnlyLeafGivesSingleFiles ==
    Scanned =>
        \A d \in Walked :
            (IsLeaf(d) /\ ReadsFine(d) /\ M4bIn(d) # {} /\ AudioIn(d) = M4bIn(d)) =>
                /\ OneSingleFilePerM4b(d)
                /\ CandidatesAt(d) = {}

\* C25: in a recursive scan a walked directory with a subdirectory, when its
\* reads succeed, has no candidate of its own, its subdirectories are walked
\* exactly when they lie within maxDepth, each .m4b file lying directly in it
\* has exactly one candidate, a SingleFile, and its other files have none; in a
\* scan that is not recursive such a directory has no subdirectory walked and,
\* when it holds an audio file, exactly one candidate, a Folder.
C25_ContainerGivesSingleFilesOnly ==
    Scanned =>
        \A d \in Walked :
            (~IsLeaf(d) /\ ReadsFine(d)) =>
                IF scan.options.recursive
                THEN /\ CandidatesAt(d) = {}
                     /\ \A s \in SubdirsOf(d) : s \in Walked <=> ~TooDeep(s)
                     /\ OneSingleFilePerM4b(d)
                     /\ \A n \in FileNamesIn(d) \ M4bIn(d) :
                           CandidatesAt(Join(d, n)) = {}
                ELSE /\ \A s \in SubdirsOf(d) : s \notin Walked
                     /\ \A n \in FileNamesIn(d) : CandidatesAt(Join(d, n)) = {}
                     /\ AudioIn(d) # {} =>
                           /\ Cardinality(CandidatesAt(d)) = 1
                           /\ TypesAt(d) = {"Folder"}

\* lib/A holds A1, one .m4b file and one .mp3 file and is scanned recursively
C25_Witness ==
    /\ Scanned
    /\ scan.options.recursive
    /\ D_A1 \in Walked
    /\ ReadsFine(D_A)
    /\ FileNamesIn(D_A) = {"1.m4b", "t.mp3"}
    /\ TypesAt(Join(D_A, "1.m4b")) = {"SingleFile"}
    /\ CandidatesAt(D_A) = {}

\* C29: the candidates of one scan have pairwise distinct paths, and no
\* directory is counted twice.
C29_CandidatePathsDistinct ==
    Scanned =>
        /\ \A i, j \in 1..Len(scan.response.candidates) :
              scan.response.candidates[i].path = scan.response.candidates[j].path
                  => i = j
        /\ \A i, j \in 1..Len(scan.response.walked) :
              scan.response.walked[i] = scan.response.walked[j] => i = j

\* a folder and a file standing next to it both give a candidate
C29_Witness ==
    /\ Scanned
    /\ Len(scan.response.candidates) >= 3
    /\ \E i, j \in 1..Len(scan.response.candidates) :
          /\ scan.response.candidates[i].type = "Folder"
          /\ scan.response.candidates[j].type = "SingleFile"
          /\ ParentOf(scan.response.candidates[j].path)
                = ParentOf(scan.response.candidates[i].path)

(* ---------------------------- group statistics ------------------------ *)

\* C30: every group of a series list has at least one book, its three status
\* counts add up to bookCount, its completionStatus is finished iff every book
\* is finished, not_started iff none is started and in_progress otherwise, and
\* ratedCount + unratedCount is at least bookCount.
C30_GroupCountsAddUp ==
    Queried("series") =>
        \A g \in 1..Len(Groups) :
            /\ Groups[g].bookCount >= 1
            /\ Groups[g].finishedCount + Groups[g].inProgressCount
                  + Groups[g].notStartedCount = Groups[g].bookCount
            /\ Groups[g].completionStatus = "finished"
                  <=> Groups[g].finishedCount = Groups[g].bookCount
            /\ Groups[g].completionStatus = "not_started"
                  <=> Groups[g].notStartedCount = Groups[g].bookCount
            /\ Groups[g].completionStatus = "in_progress"
                  <=> /\ Groups[g].finishedCount # Groups[g].bookCount
                      /\ Groups[g].notStartedCount # Groups[g].bookCount
            /\ Groups[g].ratedCount + Groups[g].unratedCount >= Groups[g].bookCount

\* a group of three, one book finished and one not started, in which a book
\* with a rating is not fully rated
C30_Witness ==
    /\ Queried("series")
    /\ \E g \in 1..Len(Groups) :
          /\ Groups[g].bookCount = 3
          /\ Groups[g].finishedCount = 1
          /\ Groups[g].notStartedCount >= 1
          /\ Groups[g].completionStatus = "in_progress"
          /\ Groups[g].ratedCount + Groups[g].unratedCount > 3

(* ------------------------------ book filters -------------------------- *)

\* the filters getBooksFiltered is given for the request
Supplied == BookFilters(query.input)

NoFilters == [search |-> None, statuses |-> None, ratingFilter |-> None,
              seriesKey |-> None]

IdsOf(list) == {list[i].id : i \in 1..Len(list)}

\* the records the book list holds for these filters alone
IdsFor(filters) ==
    IdsOf(getBooksFiltered(books, narrator_ratings, filters, None, query.now).books)

SearchPasses(row) ==
    \/ Supplied.search = None
    \/ Trim(Supplied.search[1]) = <<>>
    \/ RowMatches(row, toLowerCase(Trim(Supplied.search[1])))

StatusPasses(row) ==
    Supplied.statuses = None \/ row.status \in Range(Supplied.statuses[1])

\* the rating filter and the series key are taken as the list reads each of
\* them when it is the only filter
RatingPasses(row) ==
    row.id \in IdsFor([NoFilters EXCEPT !.ratingFilter = Supplied.ratingFilter])

SeriesKeyPasses(row) ==
    row.id \in IdsFor([NoFilters EXCEPT !.seriesKey = Supplied.seriesKey])

BooksOfKey(seriesKey) ==
    getBooksFiltered(books, narrator_ratings,
                     [NoFilters EXCEPT !.seriesKey = Some(seriesKey)],
                     Some([field |-> "series_book_number", direction |-> "asc"]),
                     query.now)

\* C26: for every group of a series list asked without filters, the book list
\* filtered by the seriesKey of the group is given and holds as many records as
\* the bookCount of the group, the very members of the group.
C26_GroupAndBookListAgree ==
    (Queried("series") /\ Unfiltered(query.input)) =>
        \A g \in 1..Len(Groups) :
            /\ ~BooksOfKey(Groups[g].seriesKey).threw
            /\ Len(BooksOfKey(Groups[g].seriesKey).books) = Groups[g].bookCount
            /\ IdsOf(BooksOfKey(Groups[g].seriesKey).books)
                  = Range(Groups[g].memberIds)

(* ------------------------------- group keys --------------------------- *)

\* the group made for the records without a series
Synthetic(group) ==
    /\ group.seriesName = STANDALONE_NAME
    /\ \A r \in MembersOf(group) : Blank(r.series)

\* C27: the groups of one series list have pairwise distinct seriesKey values,
\* and a group keyed "standalone" is the synthetic group of the records without
\* a series.
C27_GroupKeysDistinct ==
    Queried("series") =>
        /\ \A g, h \in 1..Len(Groups) :
              Groups[g].seriesKey = Groups[h].seriesKey => g = h
        /\ \A g \in 1..Len(Groups) :
              Groups[g].seriesKey = STANDALONE_KEY => Synthetic(Groups[g])

(* ---------------------------- covers at commit ------------------------ *)

Committed == last.op = "commit" /\ last.response.ok

CommitCalls == last.response.calls

\* an upsert of the commit whose cover cannot be extracted
CoverFails(c) == c.hasEmbeddedCover /\ c.path \notin last.env.covers

\* the cover a path had before the commit, if it had a row
CoverBefore_Commit(p) ==
    IF p \in PathsOf(last.before) THEN RowAt(last.before, p).cover_image_path
    ELSE None

\* no candidate written for the path says that a cover is embedded
NeverFlagged(p) ==
    \A k \in 1..Len(CommitCalls) :
        CommitCalls[k].path = p => ~CommitCalls[k].hasEmbeddedCover

\* C22: in a commit no cover is extracted for a path whose candidates have
\* hasEmbeddedCover = false; and whether cover extraction fails or not, every
\* item has its result, every written record is in the table, an item of the
\* standard import is inserted or updated, an item is in error only when a part
\* file of it cannot be read, and the error count counts those items only.
C22_CoverFailureNeverFailsItem ==
    Committed =>
        /\ Len(last.response.results) = Len(last.input)
        /\ \A k \in 1..Len(CommitCalls) : CommitCalls[k].path \in PathsOf(books)
        /\ \A i \in 1..Len(last.input) :
              /\ ~IsMultiple(last.input[i]) =>
                    last.response.results[i].status \in {"inserted", "updated"}
              /\ last.response.results[i].status = "error" =>
                    Range(last.input[i].m4bFilePaths[1]) \cap last.env.gone # {}
        /\ Counts.errors =
              Cardinality({i \in 1..Len(last.input) :
                              last.response.results[i].status = "error"})
        /\ \A r \in books :
              NeverFlagged(r.path) => r.cover_image_path = CoverBefore_Commit(r.path)

\* two items, the first with an embedded cover that cannot be extracted: it is
\* inserted without a cover, nothing is in error and the second is written too
C22_Witness ==
    /\ Committed
    /\ Len(last.input) = 2
    /\ Len(CommitCalls) = 2
    /\ CoverFails(CommitCalls[1])
    /\ last.response.results[1].status = "inserted"
    /\ last.input[1].path \in PathsOf(books)
    /\ RowAt(books, last.input[1].path).cover_image_path = None
    /\ Counts.errors = 0
    /\ last.input[2].path # last.input[1].path
    /\ last.response.results[2].status \in {"inserted", "updated"}
    /\ last.input[2].path \in PathsOf(books)

(* --------------------------- parts of a folder ------------------------ *)

\* the candidates written for the i-th item of the commit, in order
ItemCandidates(i) ==
    SubSeq(CommitCalls,
           (IF i = 1 THEN 0 ELSE last.response.results[i - 1].upto) + 1,
           last.response.results[i].upto)

\* what the part files of a folder give when each is read for itself
OwnMetadata(book) ==
    splitMultiM4bCandidate(book, [walkFail |-> {}, contentFail |-> {},
                                  statFail |-> {}, tagFail |-> {}])

SameDescription(c, e) ==
    /\ c.path = e.path
    /\ c.title = e.title
    /\ c.author = e.author
    /\ c.narrator = e.narrator
    /\ c.durationSeconds = e.durationSeconds
    /\ c.series = e.series
    /\ c.seriesBookNumber = e.seriesBookNumber

\* C23: a folder committed with the decision 'multiple', when none of its part
\* files fails, is written as one record per part that carries the title,
\* author, narrator and duration read from that part file, the author,
\* narrator, series and series position of the folder's candidate standing in
\* only where the part has none.
C23_PartsCarryTheirOwnMetadata ==
    Committed =>
        \A i \in 1..Len(last.input) :
            (IsMultiple(last.input[i]) /\ last.response.results[i].status # "error") =>
                /\ Len(ItemCandidates(i)) = Len(OwnMetadata(last.input[i]))
                /\ \A k \in 1..Len(ItemCandidates(i)) :
                      SameDescription(ItemCandidates(i)[k], OwnMetadata(last.input[i])[k])

(* ------------------------------ name parts ---------------------------- *)

NameParsed == naming.n > 0

NoDashIn(name) == \A i \in 1..Len(name) : name[i] \notin Dashes

\* C21: a name written as "<series> - Book <n> - <title>" or as
\* "<series> - <n> - <title>" is read as series = <series>, position = <n> as
\* its digits stand in the name, title = <title>, whatever later pattern it
\* also fits; a name without a dash is read as no series, no position and the
\* name itself as title.
C21_NameYieldsItsParts ==
    NameParsed =>
        /\ naming.form # None =>
              naming.result = [series |-> Some(naming.form[1].series),
                               bookNumber |-> Some(naming.form[1].number),
                               cleanTitle |-> naming.form[1].title]
        /\ NoDashIn(naming.name) =>
              naming.result = [series |-> None, bookNumber |-> None,
                               cleanTitle |-> naming.name]

====
